---- MODULE Spec2Model ----
(***************************************************************************)
(* Booking aggregation and availability engine of flare-zone: the time     *)
(* normalizer (server/lib/time), the availability aggregators, the client  *)
(* service caches (WooCommerceService) and the server route handlers       *)
(* (getBookings, handleAvailabilityRange).                                 *)
(*                                                                         *)
(* Each part has its own specification over its own variables:             *)
(*   SpecTime    toUtcMs applied to one raw timestamp in one timezone      *)
(*   SpecAgg     the aggregators applied to one record list and to a       *)
(*               permutation of it                                         *)
(*   SpecClient  one WooCommerceService instance under concurrent calls    *)
(*   SpecServer  the server handlers under concurrent requests             *)
(*   SpecFilter  the instructor filter of the calendar                     *)
(*   SpecTz      the site timezone resolution                              *)
(*   SpecCounts  the participant count of one record, as each              *)
(*               implementation derives it                                 *)
(*   SpecMaxMap  the worker pool of getMaxMap                              *)
(***************************************************************************)
EXTENDS Integers, Sequences, FiniteSets, TLC

VARIABLES
    \* ---- SpecTime
    tInput,      \* the raw timestamp handed to toUtcMs
    tTz,         \* the siteTz argument
    tResult,     \* what toUtcMs returned
    tFormatted,  \* the result formatted back in tTz (wall-clock fields)
    tPc,         \* "call" -> "returned" -> "formatted" or "grouped"
    tGroups,     \* the Map handleAvailabilityRange groups a record of that start into
    \* ---- SpecAgg
    aRecs,       \* the fetched records, in upstream order
    aPerm,       \* the same records in another order
    aAllowed,    \* the product_ids filter of the request (empty: none)
    aNames,      \* the product names the name lookups resolve
    aMeta,       \* the settings the upstream holds for each product
    aTotals,     \* the capacities getMaxMap resolves
    aServer,     \* handleAvailabilityRange's result for aRecs and for aPerm
    aClient,     \* buildFromServer's result for each
    aFallback,   \* buildFallbackFromBookings' result for each
    aPc,         \* "input" -> "served" -> "built", or "input" -> "fallback"
    \* ---- SpecClient
    cNow,            \* the browser's clock
    cVer,            \* the version of the upstream's data
    availabilityCache,     \* WooCommerceService.availabilityCache: key -> value
    availabilityInflight,  \* WooCommerceService.availabilityInflight: key -> load
    monthCache,      \* WooCommerceService.monthCache: key -> events
    cLoads,          \* the load promises getAvailabilityBlocks has created
    cCalls,          \* the calls made so far and what each received
    cStoredAt,       \* history: when each cache entry was stored
    cHung,           \* the server has stopped answering the service's requests
    \* ---- SpecServer
    sBoot,           \* Date.now() when the server process started
    sNow,            \* the milliseconds the server process has run since
    sTicks,          \* how often the clock has moved
    sConfig,         \* getWooConfig() finds the credentials
    sUpstream,       \* the bookings the upstream holds
    bookingsCache,   \* woocommerce.ts bookingsCache: key -> {ts, data}
    AVAIL_RANGE_CACHE,     \* wc-bookings AVAIL_RANGE_CACHE: key -> {ts, data}
    productSettingsCache,  \* product id -> {ts, maxPerBlock}
    sReqs,           \* the requests that have arrived, each at its await
    \* ---- SpecFilter
    fEvents,     \* the events getCalendarBookings returned for the month
    fAssigned,   \* the events getInstructorAssignedBookings returned
    fShown,      \* per event: the pass that accepted it, 0 when filtered out
    fPc,         \* "ready", then "loaded" or "refreshed"
    \* ---- SpecTz
    zEnv,        \* process.env: FORCE_SITE_TZ, the base URLs, the keys, DEFAULT_SITE_TZ
    zNow,        \* the time since the module was loaded, in ticks
    zVer,        \* how often the timezone was changed upstream
    zChangedAt,  \* when it was changed, -1 before
    SITE_TZ,     \* siteTz.ts SITE_TZ
    LAST_SOURCE, \* siteTz.ts LAST_SOURCE
    zCalls,      \* the calls of getSiteTz, each at its await or returned
    \* ---- SpecCounts
    kCounts,     \* the person_counts of one record
    kResult,     \* the participants each implementation derives from it
    kPc,         \* "input" -> "normalized"
    \* ---- SpecMaxMap
    mIds,        \* the ids getMaxMap is called with
    mIndex,      \* getMaxMap's index
    mWorkers,    \* the workers: where each stands and the id it waits for
    mRes,        \* getMaxMap's res
    mCalled,     \* history: how often getMaxFor was called for each id
    mPc          \* "running" -> "returned"

timeVars == <<tInput, tTz, tResult, tFormatted, tPc, tGroups>>

aggVars ==
    <<aRecs, aPerm, aAllowed, aNames, aMeta, aTotals, aServer, aClient, aFallback, aPc>>

cliVars ==
    <<cNow, cVer, availabilityCache, availabilityInflight, monthCache, cLoads, cCalls,
      cStoredAt, cHung>>

srvVars ==
    <<sBoot, sNow, sTicks, sConfig, sUpstream, bookingsCache, AVAIL_RANGE_CACHE,
      productSettingsCache, sReqs>>

filVars == <<fEvents, fAssigned, fShown, fPc>>

tzVars == <<zEnv, zNow, zVer, zChangedAt, SITE_TZ, LAST_SOURCE, zCalls>>

cntVars == <<kCounts, kResult, kPc>>

mapVars == <<mIds, mIndex, mWorkers, mRes, mCalled, mPc>>

vars == <<timeVars, aggVars, cliVars, srvVars, filVars, tzVars, cntVars, mapVars>>

\* what the actions of each part leave alone
exceptTime ==
    <<aggVars, cliVars, srvVars, filVars, tzVars, cntVars, mapVars>>

exceptAgg ==
    <<timeVars, cliVars, srvVars, filVars, tzVars, cntVars, mapVars>>

exceptClient ==
    <<timeVars, aggVars, srvVars, filVars, tzVars, cntVars, mapVars>>

exceptServer ==
    <<timeVars, aggVars, cliVars, filVars, tzVars, cntVars, mapVars>>

exceptFilter ==
    <<timeVars, aggVars, cliVars, srvVars, tzVars, cntVars, mapVars>>

exceptTz ==
    <<timeVars, aggVars, cliVars, srvVars, filVars, cntVars, mapVars>>

exceptCounts ==
    <<timeVars, aggVars, cliVars, srvVars, filVars, tzVars, mapVars>>

exceptMaxMap ==
    <<timeVars, aggVars, cliVars, srvVars, filVars, tzVars, cntVars>>

----------------------------------------------------------------------------
(***************************************************************************)
(* JavaScript numbers.  Epoch milliseconds do not fit TLC's 32-bit         *)
(* integers, so a finite number is kept exactly as hi * 10^6 + lo with     *)
(* 0 <= lo < 10^6 (hi carries the sign).  t tells a finite number from     *)
(* NaN, +Infinity, -Infinity and from null.                                *)
(***************************************************************************)
Base == 1000 * 1000

Norm(h, l) == [t |-> "fin", hi |-> h + (l \div Base), lo |-> l % Base]

Big(h, l) == Norm(h, l)

NULL == [t |-> "null", hi |-> 0, lo |-> 0]

NaN == [t |-> "nan", hi |-> 0, lo |-> 0]

PosInf == [t |-> "inf", hi |-> 0, lo |-> 0]

NegInf == [t |-> "ninf", hi |-> 0, lo |-> 0]

IsFin(a) == a.t = "fin"

\* a < b on JavaScript numbers: every comparison with NaN is false
NumLt(a, b) ==
    CASE a.t = "nan" \/ b.t = "nan" -> FALSE
      [] a.t = "inf" -> FALSE
      [] b.t = "ninf" -> FALSE
      [] a.t = "ninf" -> TRUE
      [] b.t = "inf" -> TRUE
      [] OTHER -> a.hi < b.hi \/ (a.hi = b.hi /\ a.lo < b.lo)

\* a >= b on JavaScript numbers
NumGe(a, b) == a.t # "nan" /\ b.t # "nan" /\ ~NumLt(a, b)

NumAdd(a, b) == Norm(a.hi + b.hi, a.lo + b.lo)

NumSub(a, b) == Norm(a.hi - b.hi, a.lo - b.lo)

\* a * k for a small positive k (lo * k stays below 2^31)
NumMul(a, k) ==
    CASE a.t = "fin" -> Norm(a.hi * k, a.lo * k)
      [] OTHER -> a

\* whole seconds (a 32-bit integer) as epoch milliseconds
MsOfSec(s) == Norm(s \div 1000, (s % 1000) * 1000)

\* epoch milliseconds (before 2038) as whole seconds, rounded down
SecOfMs(a) == a.hi * 1000 + (a.lo \div 1000)

----------------------------------------------------------------------------
(***************************************************************************)
(* server/lib/time: the time normalizer                                    *)
(***************************************************************************)

\* const MS_THRESHOLD = 1_000_000_000_000
MS_THRESHOLD == Big(1000 * 1000, 0)

\* days from 1970-01-01 to the civil date (y, m, d); d past the month's end
\* rolls over into the next month, as Date.UTC does
DaysFromCivil(y, m, d) ==
    LET yy  == IF m <= 2 THEN y - 1 ELSE y
        era == yy \div 400
        yoe == yy - era * 400
        mp  == IF m > 2 THEN m - 3 ELSE m + 9
        doy == ((153 * mp + 2) \div 5) + d - 1
        doe == yoe * 365 + (yoe \div 4) - (yoe \div 100) + doy
    IN  era * 146097 + doe - 719468

\* the civil date of day doy (counted from 1 March) in month mp (March = 0)
\* of year yoe of the 400-year era
CivilOfMonth(era, yoe, doy, mp) ==
    [y  |-> yoe + era * 400 + (IF mp >= 10 THEN 1 ELSE 0),
     mo |-> IF mp < 10 THEN mp + 3 ELSE mp - 9,
     d  |-> doy - ((153 * mp + 2) \div 5) + 1]

CivilOfYearDay(era, yoe, doy) == CivilOfMonth(era, yoe, doy, (5 * doy + 2) \div 153)

CivilOfYear(era, doe, yoe) ==
    CivilOfYearDay(era, yoe, doe - (365 * yoe + (yoe \div 4) - (yoe \div 100)))

\* the civil date of day doe of an era
CivilOfEraDay(era, doe) ==
    CivilOfYear(era, doe,
                (doe - (doe \div 1460) + (doe \div 36524) - (doe \div 146096)) \div 365)

\* the civil date of a day number
CivilFromDays(z) == CivilOfEraDay((z + 719468) \div 146097, (z + 719468) % 146097)

\* Date.UTC(y, mo - 1, d, h, mi, se), in epoch milliseconds
DateUTC(f) ==
    MsOfSec(DaysFromCivil(f.y, f.mo, f.d) * 86400 + f.h * 3600 + f.mi * 60 + f.se)

\* const MIN_VALID = Date.UTC(2000, 0, 1)
MIN_VALID == DateUTC([y |-> 2000, mo |-> 1, d |-> 1, h |-> 0, mi |-> 0, se |-> 0])

\* the wall-clock fields of a civil date and the seconds into its day
FieldsOfDay(c, rem) ==
    [y |-> c.y, mo |-> c.mo, d |-> c.d,
     h |-> rem \div 3600, mi |-> (rem % 3600) \div 60, se |-> rem % 60]

\* the wall-clock fields of a count of seconds
FieldsOfSec(s) == FieldsOfDay(CivilFromDays(s \div 86400), s % 86400)

\* The timezones of the model and the UTC offset (seconds) each has at a UTC
\* instant (seconds): the tz database's rules for 2024 and for the winter of
\* 1999/2000, which are the periods the inputs lie in.
ZoneNames == {"UTC", "America/New_York", "Europe/Berlin", "Australia/Lord_Howe"}

ZoneOffsets(tz) ==
    CASE tz = "America/New_York" -> {-18000, -14400}
      [] tz = "Europe/Berlin" -> {3600, 7200}
      [] tz = "Australia/Lord_Howe" -> {37800, 39600}
      [] OTHER -> {0}

ZoneOffsetSec(tz, utcSec) ==
    CASE tz = "America/New_York" ->
            IF utcSec >= 1710054000 /\ utcSec < 1730613600 THEN -14400 ELSE -18000
      [] tz = "Europe/Berlin" ->
            IF utcSec >= 1711846800 /\ utcSec < 1729990800 THEN 7200 ELSE 3600
      [] tz = "Australia/Lord_Howe" ->
            IF utcSec >= 1712415600 /\ utcSec < 1728142200 THEN 37800 ELSE 39600
      [] OTHER -> 0

\* Intl.DateTimeFormat(..., {timeZone}).formatToParts(new Date(utcTs)): the
\* wall-clock fields the instant has in the zone
FormatToParts(utcTs, timeZone) ==
    LET sec == SecOfMs(utcTs)
    IN  FieldsOfSec(sec + ZoneOffsetSec(timeZone, sec))

getTzOffsetMs(utcTs, timeZone) ==
    LET map   == FormatToParts(utcTs, timeZone)
        asUTC == DateUTC(map)
    IN  NumSub(asUTC, utcTs)

\* zonedNaiveToUtcMs without its second pass
zonedNaiveToUtcMs_OnePass(f, timeZone) ==
    LET localTs == DateUTC(f)
    IN  NumSub(localTs, getTzOffsetMs(localTs, timeZone))

\* zonedNaiveToUtcMs from its second offset on:
\* if (offset2 !== offset) utcTs = localTs - offset2
zonedSecondPass(localTs, offset, utcTs, offset2) ==
    IF offset2 # offset THEN NumSub(localTs, offset2) ELSE utcTs

\* zonedNaiveToUtcMs from its first guess utcTs on
zonedFirstGuess(localTs, offset, utcTs, timeZone) ==
    zonedSecondPass(localTs, offset, utcTs, getTzOffsetMs(utcTs, timeZone))

\* zonedNaiveToUtcMs from localTs = Date.UTC(...) on
zonedLocalTs(localTs, timeZone) ==
    zonedFirstGuess(localTs, getTzOffsetMs(localTs, timeZone),
                    NumSub(localTs, getTzOffsetMs(localTs, timeZone)), timeZone)

\* zonedNaiveToUtcMs on a string the regular expression of parseNaiveDateTime
\* has split into the fields f
zonedNaiveToUtcMs(f, timeZone) == zonedLocalTs(DateUTC(f), timeZone)

\* parseInt(s, 10) of an all-digit string, given as its digits
RECURSIVE ParseInt(_)
ParseInt(s) ==
    IF s = <<>> THEN Big(0, 0)
    ELSE NumAdd(NumMul(ParseInt(SubSeq(s, 1, Len(s) - 1)), 10), Big(0, s[Len(s)]))

\* the number branch with the seconds scaling left out
NumberToMs_NoScale(n) == IF IsFin(n) /\ NumGe(n, MIN_VALID) THEN n ELSE NULL

\* toUtcMs, typeof input === "number"
NumberToMs(n) ==
    LET ms == IF NumLt(n, MS_THRESHOLD) THEN NumMul(n, 1000) ELSE n
    IN  IF IsFin(ms) /\ NumGe(ms, MIN_VALID) THEN ms ELSE NULL

\* toUtcMs, the all-digit string branch: the threshold is MS_THRESHOLD / 1000
DigitsToMs(s) ==
    LET sec == ParseInt(s)
        ms  == IF NumLt(sec, Big(1000, 0)) THEN NumMul(sec, 1000) ELSE sec
    IN  IF NumGe(ms, MIN_VALID) THEN ms ELSE NULL

\* toUtcMs, a string with a Z or a numeric offset suffix: Date.parse gives the
\* absolute instant, or NaN when the string is no date
OffsetStringToMs(in) ==
    LET ms == IF in.valid THEN NumSub(DateUTC(in.f), MsOfSec(in.offMin * 60)) ELSE NaN
    IN  IF IsFin(ms) /\ NumGe(ms, MIN_VALID) THEN ms ELSE NULL

\* ms != null && ms >= MIN_VALID ? ms : null
NotBeforeMinValid(ms) == IF ms # NULL /\ NumGe(ms, MIN_VALID) THEN ms ELSE NULL

\* toUtcMs, the naive local string branch; a string the regular expression
\* rejects makes zonedNaiveToUtcMs return null
NaiveToMs(in, siteTz) ==
    NotBeforeMinValid(IF in.valid THEN zonedNaiveToUtcMs(in.f, siteTz) ELSE NULL)

toUtcMs(in, siteTz) ==
    CASE in.k = "null" -> NULL
      [] in.k = "number" -> NumberToMs(in.n)
      [] in.k = "empty" -> NULL
      [] in.k = "digits" -> DigitsToMs(in.digits)
      [] in.k = "offset" -> OffsetStringToMs(in)
      [] OTHER -> NaiveToMs(in, siteTz)

----------------------------------------------------------------------------
(***************************************************************************)
(* The raw timestamps of SpecTime                                          *)
(***************************************************************************)
NoFields == [y |-> 0, mo |-> 0, d |-> 0, h |-> 0, mi |-> 0, se |-> 0]

Raw(k, n, digits, f, offMin, valid) ==
    [k |-> k, n |-> n, digits |-> digits, f |-> f, offMin |-> offMin, valid |-> valid]

RawNull == Raw("null", NULL, <<>>, NoFields, 0, FALSE)

RawEmpty == Raw("empty", NULL, <<>>, NoFields, 0, FALSE)

RawNumber(n) == Raw("number", n, <<>>, NoFields, 0, TRUE)

RawDigits(s) == Raw("digits", NULL, s, NoFields, 0, TRUE)

RawOffset(f, offMin) == Raw("offset", NULL, <<>>, f, offMin, TRUE)

RawNaive(f) == Raw("naive", NULL, <<>>, f, 0, TRUE)

RawGarbage == Raw("naive", NULL, <<>>, NoFields, 0, FALSE)

\* the hours 0..MaxHour of a day are drawn as wall-clock hours
MaxHour == 4

\* numbers around the seconds/milliseconds threshold and the year-2000 floor
Numbers ==
    { Big(0, 0), Big(0, 1), Big(-1, 999999), Big(946, 684799), Big(946, 684800),
      Big(999, 999999), Big(1000, 0), Big(1700, 0), Big(946684, 799999),
      Big(946684, 800000), Big(999999, 999999), Big(1000000, 0), Big(1000000, 1),
      Big(1700000, 0), NaN, PosInf, NegInf }

DigitStrings ==
    { <<0>>, <<7>>, <<0, 0, 7>>,
      <<9, 4, 6, 6, 8, 4, 7, 9, 9>>, <<9, 4, 6, 6, 8, 4, 8, 0, 0>>,
      <<9, 9, 9, 9, 9, 9, 9, 9, 9>>, <<1, 0, 0, 0, 0, 0, 0, 0, 0, 0>>,
      <<1, 7, 0, 0, 0, 0, 0, 0, 0, 0>>,
      <<9, 4, 6, 6, 8, 4, 7, 9, 9, 9, 9, 9>>, <<9, 4, 6, 6, 8, 4, 8, 0, 0, 0, 0, 0>>,
      <<9, 9, 9, 9, 9, 9, 9, 9, 9, 9, 9, 9>>, <<1, 0, 0, 0, 0, 0, 0, 0, 0, 0, 0, 0, 0>>,
      <<1, 7, 0, 0, 0, 0, 0, 0, 0, 0, 0, 0, 0>> }

\* days with a DST transition in one of the zones, a day without, an
\* impossible date, and the days around the year-2000 floor
NaiveDates ==
    { <<2024, 3, 10>>, <<2024, 11, 3>>, <<2024, 3, 31>>, <<2024, 10, 27>>,
      <<2024, 4, 7>>, <<2024, 10, 6>>, <<2024, 6, 15>>, <<2024, 2, 30>>,
      <<1999, 12, 31>>, <<2000, 1, 1>> }

NaiveHours == (0 .. MaxHour) \cup {10, 11, 18, 19, 23}

NaiveFields ==
    { [y |-> dt[1], mo |-> dt[2], d |-> dt[3], h |-> h, mi |-> mi, se |-> 0] :
        dt \in NaiveDates, h \in NaiveHours, mi \in {0, 30} }

OffsetStrings ==
    { RawOffset([y |-> 2024, mo |-> 3, d |-> 10, h |-> 2, mi |-> 30, se |-> 0], om) :
        om \in {0, -300, 120} }
    \cup { Raw("offset", NULL, <<>>, NoFields, 0, FALSE) }

TimeInputs ==
    {RawNull, RawEmpty, RawGarbage}
    \cup { RawNumber(n) : n \in Numbers }
    \cup { RawDigits(s) : s \in DigitStrings }
    \cup OffsetStrings
    \cup { RawNaive(f) : f \in NaiveFields }

----------------------------------------------------------------------------
(***************************************************************************)
(* SpecTime: one call of toUtcMs, then the result formatted back           *)
(***************************************************************************)
TimeInit ==
    /\ tInput \in TimeInputs
    /\ tTz \in ZoneNames
    /\ tResult = NULL
    /\ tFormatted = NoFields
    /\ tPc = "call"
    /\ tGroups = <<>>

CallToUtcMs ==
    /\ tPc = "call"
    /\ tResult' = toUtcMs(tInput, tTz)
    /\ tPc' = "returned"
    /\ UNCHANGED <<tInput, tTz, tFormatted, tGroups>>
    /\ UNCHANGED exceptTime

\* the caller formats a resolved instant in the same timezone
FormatBack ==
    /\ tPc = "returned"
    /\ tResult # NULL
    /\ NumLt(tResult, Big(2000 * 1000, 0))
    /\ tFormatted' = FormatToParts(tResult, tTz)
    /\ tPc' = "formatted"
    /\ UNCHANGED <<tInput, tTz, tResult, tGroups>>
    /\ UNCHANGED exceptTime

----------------------------------------------------------------------------
(***************************************************************************)
(* Properties of the time normalizer                                       *)
(***************************************************************************)
TimeReturned == tPc # "call"

\* C5: toUtcMs on a (finite) numeric input n returns n * 1000 when n is below
\* 10^12 and n itself when n is at or above 10^12, and null when that instant
\* lies before 2000-01-01T00:00:00Z (946684800000); so 1700000000 and
\* 1700000000000 both give 1700000000000.
C5_NumericThreshold ==
    (TimeReturned /\ tInput.k = "number" /\ IsFin(tInput.n)) =>
        LET n       == tInput.n
            below   == n.hi < 1000000
            instant == IF below THEN Norm(n.hi * 1000, n.lo * 1000) ELSE n
            early   == instant.hi < 946684 \/ (instant.hi = 946684 /\ instant.lo < 800000)
        IN  /\ tResult = (IF early THEN NULL ELSE instant)
            /\ (n = Big(1700, 0) => tResult = Big(1700000, 0))
            /\ (n = Big(1700000, 0) => tResult = Big(1700000, 0))

C5_Witness ==
    /\ tPc = "returned"
    /\ tInput = RawNumber(Big(1700, 0))
    /\ tResult = Big(1700000, 0)

\* C6: for every all-digit string s, toUtcMs(s, tz) equals toUtcMs(Number(s), tz).
C6_DigitStringLikeNumber ==
    (TimeReturned /\ tInput.k = "digits") =>
        tResult = toUtcMs(RawNumber(ParseInt(tInput.digits)), tTz)

\* the instants whose wall-clock time in tz reads f
InstantsReading(f, tz) ==
    { u \in { NumSub(DateUTC(f), MsOfSec(off)) : off \in ZoneOffsets(tz) } :
        FormatToParts(u, tz) = f }

WallClockExists(f, tz) == InstantsReading(f, tz) # {}

\* f names a day of the calendar
IsCalendarDate(f) ==
    LET c == CivilFromDays(DaysFromCivil(f.y, f.mo, f.d))
    IN  c.y = f.y /\ c.mo = f.mo /\ c.d = f.d

\* a wall-clock time a spring-forward transition skips
InGap(f, tz) == IsCalendarDate(f) /\ ~WallClockExists(f, tz)

\* the largest difference between two offsets of the zone, in milliseconds
DstDelta(tz) ==
    LET offs == ZoneOffsets(tz)
        hi   == CHOOSE a \in offs : \A b \in offs : a >= b
        lo   == CHOOSE a \in offs : \A b \in offs : a <= b
    IN  MsOfSec(hi - lo)

\* |a - b| <= d
Within(a, b, d) == ~NumLt(d, NumSub(a, b)) /\ ~NumLt(d, NumSub(b, a))

NaiveInput == tInput.k = "naive" /\ tInput.valid

\* the gap clause of C7: a skipped wall-clock time resolves to an instant that
\* reads at most the DST delta away from it
C7_GapClause ==
    (TimeReturned /\ NaiveInput /\ InGap(tInput.f, tTz)) =>
        /\ tResult # NULL
        /\ tPc = "formatted" =>
              Within(DateUTC(tFormatted), DateUTC(tInput.f), DstDelta(tTz))

----------------------------------------------------------------------------
(***************************************************************************)
(* Booking records and the availability aggregators                        *)
(***************************************************************************)
NumZero == Big(0, 0)

NumOne == Big(0, 1)

\* a falsy number: x || y takes y
Falsy(x) == x.t = "nan" \/ x.t = "null" \/ x = NumZero

\* x || y
OrElse(x, y) == IF Falsy(x) THEN y ELSE x

\* Math.max(a, b): NaN when either is NaN
NumMax(a, b) ==
    CASE a.t = "nan" \/ b.t = "nan" -> NaN
      [] NumLt(a, b) -> b
      [] OTHER -> a

\* person_counts as upstream sends it: absent, a number, an array of numbers,
\* a keyed object of numbers, or another value (a non-empty string, true)
Counts(k, n, items) == [k |-> k, n |-> n, items |-> items]

CountsAbsent == Counts("absent", NULL, <<>>)

RECURSIVE SumCounts(_)
\* reduce((s, n) => s + (Number(n) || 0), 0)
SumCounts(items) ==
    IF items = <<>> THEN NumZero
    ELSE NumAdd(SumCounts(SubSeq(items, 1, Len(items) - 1)),
                OrElse(items[Len(items)], NumZero))

\* parseCounts of handleAvailabilityRange
parseCounts(pc) ==
    CASE pc.k = "absent" -> NumOne
      [] pc.k = "number" -> IF Falsy(pc.n) THEN NumOne ELSE NumMax(NumOne, pc.n)
      [] pc.k = "array" -> NumMax(NumOne, SumCounts(pc.items))
      [] pc.k = "object" -> NumMax(NumOne, SumCounts(pc.items))
      [] OTHER -> NumOne

\* the mapper without Math.max(1, participants)
eventParticipants_NoFloor(pc) ==
    CASE pc.k = "array" -> SumCounts(pc.items)
      [] pc.k = "number" -> pc.n
      [] pc.k = "object" -> SumCounts(pc.items)
      [] OTHER -> NumOne

\* the participants of getBookings' event mapper
eventParticipants(pc) ==
    CASE pc.k = "array" -> NumMax(NumOne, SumCounts(pc.items))
      [] pc.k = "number" -> NumMax(NumOne, pc.n)
      [] pc.k = "object" -> NumMax(NumOne, SumCounts(pc.items))
      [] OTHER -> NumOne

\* the participants of convertRecentItemToEvent
convertRecentItemParticipants(pc) ==
    CASE pc.k = "absent" -> NumOne
      [] pc.k = "number" -> IF Falsy(pc.n) THEN NumOne ELSE NumMax(NumOne, pc.n)
      [] pc.k = "array" -> NumMax(NumOne, SumCounts(pc.items))
      [] pc.k = "object" -> NumMax(NumOne, SumCounts(pc.items))
      [] OTHER -> NumOne

\* the timezone of the Node process and the one of the browser
HostTz == "UTC"

BrowserTz == "America/New_York"

\* Date.parse of a string: an ISO string with Z or an offset is an absolute
\* instant, a date-time without offset is local time of the process, anything
\* else (undefined, "", digits, garbage) is NaN
DateParse(in, localTz) ==
    CASE in.k = "offset" /\ in.valid -> NumSub(DateUTC(in.f), MsOfSec(in.offMin * 60))
      [] in.k = "naive" /\ in.valid -> zonedNaiveToUtcMs(in.f, localTz)
      [] OTHER -> NaN

\* typeof v === "number" ? (v > 1e12 ? v : v * 1000) : Date.parse(v)
parseStartEnd(in, localTz) ==
    IF in.k = "number"
    THEN (IF NumLt(MS_THRESHOLD, in.n) THEN in.n ELSE NumMul(in.n, 1000))
    ELSE DateParse(in, localTz)

\* a booking record of the upstream
Booking(id, pid, start, end, pc) ==
    [id |-> id, product_id |-> pid, start |-> start, end |-> end, person_counts |-> pc]

\* the position of the group with the key (pid, start) in the insertion-ordered
\* Map, 0 when there is none
GroupIndex(groups, pid, start) ==
    IF \E i \in 1 .. Len(groups) : groups[i].product_id = pid /\ groups[i].start = start
    THEN CHOOSE i \in 1 .. Len(groups) :
            groups[i].product_id = pid /\ groups[i].start = start
    ELSE 0

\* if (prev) { prev.used += used; prev.end = Math.max(prev.end, endMs || prev.end) }
\* else map.set(k, { product_id, start, end: endMs || startMs, used }),
\* prev being the group at position i
serverGroupPut(groups, i, pid, startMs, endMs, used) ==
    IF i # 0
    THEN [groups EXCEPT ![i].used = NumAdd(@, used),
                        ![i].end = NumMax(@, OrElse(endMs, @))]
    ELSE Append(groups, [product_id |-> pid, start |-> startMs,
                         end |-> OrElse(endMs, startMs), used |-> used])

\* prev = map.get(key(pid, startMs))
serverGroupFind(groups, pid, startMs, endMs, used) ==
    serverGroupPut(groups, GroupIndex(groups, pid, startMs), pid, startMs, endMs, used)

\* one turn of the grouping loop of handleAvailabilityRange
serverGroupStep(groups, b, allowedIds) ==
    IF allowedIds # {} /\ b.product_id \notin allowedIds THEN groups
    ELSE serverGroupFind(groups, b.product_id, parseStartEnd(b.start, HostTz),
                         parseStartEnd(b.end, HostTz), parseCounts(b.person_counts))

RECURSIVE serverGroups(_, _)
\* the Map the grouping loop builds from the fetched records, in insertion order
serverGroups(all, allowedIds) ==
    IF all = <<>> THEN <<>>
    ELSE serverGroupStep(serverGroups(SubSeq(all, 1, Len(all) - 1), allowedIds),
                         all[Len(all)], allowedIds)

\* product names are kept as their rank in the collation order localeCompare
\* uses; "Product #<id>" ranks by its id
hashName(pid) == 100 + pid

\* nameMap.get(pid) || `Product #${pid}`; nameMap is a function on the ids
\* the products request named
displayName(nameMap, pid) ==
    IF pid \in DOMAIN nameMap THEN nameMap[pid] ELSE hashName(pid)

\* totalsMap.get(pid) ?? null
totalOf(totalsMap, pid) ==
    IF pid \in DOMAIN totalsMap THEN totalsMap[pid] ELSE NULL

\* the output list of handleAvailabilityRange: new Date(NaN).toISOString()
\* throws, and the handler's catch answers 500
serverOutput(groups, nameMap, totalsMap) ==
    IF \E i \in 1 .. Len(groups) : ~IsFin(groups[i].start) \/ ~IsFin(groups[i].end)
    THEN [status |-> "error", data |-> <<>>]
    ELSE [status |-> "ok",
          data |-> [i \in 1 .. Len(groups) |->
                      [product_id |-> groups[i].product_id,
                       product_name |-> displayName(nameMap, groups[i].product_id),
                       start |-> groups[i].start,
                       end |-> groups[i].end,
                       used |-> groups[i].used,
                       total |-> totalOf(totalsMap, groups[i].product_id)]]]

\* the answer to the groups, with the Map the grouping loop had built
serverAnswer(groups, nameMap, totalsMap) ==
    [status |-> serverOutput(groups, nameMap, totalsMap).status,
     data |-> serverOutput(groups, nameMap, totalsMap).data,
     map |-> groups]

\* the grouping loop and the output list of handleAvailabilityRange
serverSlots(all, allowedIds, nameMap, totalsMap) ==
    serverAnswer(serverGroups(all, allowedIds), nameMap, totalsMap)

\* getBookings' event mapper: start = new Date(startMs || 0),
\* end = new Date(endMs || (startMs || 0)), with toUtcMs in the site timezone
eventOf(b, startMs, endMs) ==
    [id |-> b.id,
     productId |-> b.product_id,
     start |-> OrElse(startMs, NumZero),
     end |-> OrElse(endMs, OrElse(startMs, NumZero)),
     participants |-> eventParticipants(b.person_counts)]

\* the event of a booking: startMs = toUtcMs(rawStart, siteTz || "UTC"),
\* endMs = toUtcMs(rawEnd, siteTz || "UTC")
serverEvent(b, siteTz) == eventOf(b, toUtcMs(b.start, siteTz), toUtcMs(b.end, siteTz))

\* normalizeEvents of the client service: the dates of the JSON response are
\* parsed back, an unparseable end becomes the start
normalizeEvent(e) ==
    [e EXCEPT !.end = IF e.end.t = "nan" THEN e.start ELSE e.end]

\* `${y}-${m}-${d}` of a date's local fields
yearMonthDay(f) == <<f.y, f.mo, f.d>>

\* the local calendar day of an instant in the browser, as the dateKey
dateKey(ms) ==
    IF IsFin(ms) THEN yearMonthDay(FormatToParts(ms, BrowserTz)) ELSE <<0, 0, 0>>

\* (a, b) => a.start - b.start || a.productName.localeCompare(b.productName)
\* as -1, 0, 1
compareSlots(a, b) ==
    CASE IsFin(a.start) /\ IsFin(b.start) /\ NumLt(a.start, b.start) -> -1
      [] IsFin(a.start) /\ IsFin(b.start) /\ NumLt(b.start, a.start) -> 1
      [] a.productName < b.productName -> -1
      [] a.productName > b.productName -> 1
      [] OTHER -> 0

\* x put behind the last slot of a sorted list that does not compare above it
insertSlot(sorted, x) ==
    LET before == { i \in 1 .. Len(sorted) : compareSlots(sorted[i], x) <= 0 }
        k      == IF before = {} THEN 0
                  ELSE CHOOSE i \in before : \A j \in before : j <= i
    IN  SubSeq(sorted, 1, k) \o <<x>> \o SubSeq(sorted, k + 1, Len(sorted))

RECURSIVE sortSlots(_)
\* Array.prototype.sort with compareSlots: a stable sort
sortSlots(list) ==
    IF list = <<>> THEN <<>>
    ELSE insertSlot(sortSlots(SubSeq(list, 1, Len(list) - 1)), list[Len(list)])

\* the slots of one day in their order of arrival
RECURSIVE slotsOfDay(_, _)
slotsOfDay(slots, key) ==
    IF slots = <<>> THEN <<>>
    ELSE LET rest == slotsOfDay(SubSeq(slots, 1, Len(slots) - 1), key)
             s    == slots[Len(slots)]
         IN  IF dateKey(s.start) = key THEN Append(rest, s) ELSE rest

\* byDate: the slots pushed under their dateKey, each day's list then sorted
byDate(slots) ==
    [key \in { dateKey(slots[i].start) : i \in 1 .. Len(slots) } |->
        sortSlots(slotsOfDay(slots, key))]

\* typeof it.total === "number" ? it.total
\*   : it.total == null ? null : Number(it.total) || null
\* on a JSON value, which is a finite number or null
clientTotal(total) == IF IsFin(total) THEN total ELSE NULL

\* buildFromServer of getAvailabilityBlocks on the data of the server response
buildFromServer(data) ==
    byDate([i \in 1 .. Len(data) |->
              [productId |-> data[i].product_id,
               productName |-> data[i].product_name,
               start |-> data[i].start,
               end |-> data[i].end,
               used |-> OrElse(data[i].used, NumZero),
               total |-> clientTotal(data[i].total)]])

\* one turn of the grouping loop of buildFallbackFromBookings
fallbackGroupStep(groups, ev) ==
    LET pid   == ev.productId
        start == ev.start
        end   == OrElse(ev.end, start)
        i     == GroupIndex(groups, pid, start)
        used  == OrElse(ev.participants, NumOne)
    IN  IF i # 0
        THEN [groups EXCEPT ![i].used = NumAdd(@, used),
                            ![i].end = NumMax(@, end)]
        ELSE Append(groups, [product_id |-> pid, start |-> start,
                             end |-> end, used |-> used])

RECURSIVE fallbackGroups(_)
fallbackGroups(events) ==
    IF events = <<>> THEN <<>>
    ELSE fallbackGroupStep(fallbackGroups(SubSeq(events, 1, Len(events) - 1)),
                           events[Len(events)])

\* the slots the fallback makes of its groups: total is null
fallbackSlots(groups, nameMap) ==
    [i \in 1 .. Len(groups) |->
        [productId |-> groups[i].product_id,
         productName |-> displayName(nameMap, groups[i].product_id),
         start |-> groups[i].start,
         end |-> groups[i].end,
         used |-> groups[i].used,
         total |-> NULL]]

\* buildFallbackFromBookings on the events of getCalendarBookings; nameMap
\* holds the names getProductById resolved
buildFallbackFromBookings(events, nameMap) ==
    byDate(fallbackSlots(fallbackGroups(events), nameMap))

\* handleAvailabilityRange fetches one record whose start is the raw
\* timestamp, and its grouping loop runs on it
GroupOneRecord ==
    /\ tPc = "returned"
    /\ tGroups' = serverGroups(<<Booking(1, 1, tInput, RawNull, CountsAbsent)>>, {})
    /\ tPc' = "grouped"
    /\ UNCHANGED <<tInput, tTz, tResult, tFormatted>>
    /\ UNCHANGED exceptTime

TimeNext == CallToUtcMs \/ FormatBack \/ GroupOneRecord

----------------------------------------------------------------------------
(***************************************************************************)
(* SpecCounts: the person_counts of one record, normalized by              *)
(* handleAvailabilityRange, by getBookings and by convertRecentItemToEvent *)
(***************************************************************************)

\* the entries of an array or of a keyed object of person_counts are at most
\* MaxItems
MaxItems == 2

\* the counts the upstream's JSON carries: whole numbers, negative and zero
\* ones included
CountNumbers == { Big(0, n) : n \in -2 .. 3 }

\* an entry of an array or of an object: a count, or a value Number() turns
\* into NaN
CountItems == { Big(0, n) : n \in -1 .. 2 } \cup { NaN }

CountLists == UNION { [1 .. n -> CountItems] : n \in 0 .. MaxItems }

\* person_counts in each of its shapes; "other" is a non-empty string or true
CountsPool ==
    { CountsAbsent, Counts("other", NULL, <<>>) }
       \cup { Counts("number", n, <<>>) : n \in CountNumbers }
       \cup { Counts(k, NULL, items) : k \in {"array", "object"}, items \in CountLists }

CountsIdle ==
    /\ kCounts = CountsAbsent
    /\ kResult = <<>>
    /\ kPc = "idle"

CountsInit ==
    /\ kCounts \in CountsPool
    /\ kResult = <<>>
    /\ kPc = "input"

\* the three places that derive the participants of a record
NormalizeCounts ==
    /\ kPc = "input"
    /\ kResult' = [parseCounts |-> parseCounts(kCounts),
                   getBookings |-> eventParticipants(kCounts),
                   convertRecentItemToEvent |-> convertRecentItemParticipants(kCounts)]
    /\ kPc' = "normalized"
    /\ UNCHANGED kCounts
    /\ UNCHANGED exceptCounts

CountsNext == NormalizeCounts

----------------------------------------------------------------------------
(***************************************************************************)
(* SpecAgg: one record list and a permutation of it, aggregated by the     *)
(* server, converted by the client, and aggregated by the client fallback  *)
(***************************************************************************)

\* at most MaxRecs records are aggregated
MaxRecs == 3

\* 2024-06-15T10:00:00Z in seconds, the start of most records
SlotSec == Big(1718, 445600)

SecPlus(n, s) == NumAdd(n, Big(0, s))

\* records as the upstream sends them: starts and ends in epoch seconds or as
\* strings, an end that is missing, an end before the start, a start that is
\* no date, and person_counts in each of its shapes
RecordPool ==
    { Booking(1, 1, RawNumber(SlotSec), RawNumber(SecPlus(SlotSec, 7200)),
              Counts("number", Big(0, 2), <<>>)),
      Booking(2, 1, RawNumber(SlotSec), RawNull, CountsAbsent),
      Booking(3, 1, RawNumber(SlotSec), RawNumber(SecPlus(SlotSec, -3600)),
              Counts("array", NULL, <<Big(0, 1), Big(0, 2)>>)),
      Booking(4, 2, RawNumber(SlotSec), RawNumber(SecPlus(SlotSec, 7200)),
              Counts("object", NULL, <<Big(0, 2), NumZero>>)),
      Booking(5, 2, RawNumber(SecPlus(SlotSec, 3600)), RawNumber(SecPlus(SlotSec, 7200)),
              Counts("number", NumZero, <<>>)),
      Booking(6, 1, RawGarbage, RawGarbage, Counts("number", NumOne, <<>>)),
      Booking(7, 2,
              RawOffset([y |-> 2024, mo |-> 6, d |-> 15, h |-> 10, mi |-> 0, se |-> 0], 0),
              RawOffset([y |-> 2024, mo |-> 6, d |-> 15, h |-> 12, mi |-> 0, se |-> 0], 0),
              Counts("other", NULL, <<>>)) }

\* the orders a set of records can arrive in
Orderings(T) ==
    { s \in [1 .. Cardinality(T) -> T] : \A i, j \in 1 .. Cardinality(T) : s[i] = s[j] => i = j }

\* names two products share, names that differ, and no names resolved
NameMaps == { <<>>, (1 :> 10) @@ (2 :> 10), (1 :> 10) @@ (2 :> 200) }

\* the settings of a product as the upstream answers them: the request fails,
\* or it returns max_bookings_per_block and max_persons (NULL: field absent)
Meta(ok, maxBookings, maxPersons) ==
    [ok |-> ok, max_bookings_per_block |-> maxBookings, max_persons |-> maxPersons]

MetaFails == Meta(FALSE, NULL, NULL)

\* max without the || null: a zero capacity field is kept
maxPerBlock_ZeroKept(meta) ==
    IF meta.max_bookings_per_block.t = "null" THEN NULL
    ELSE meta.max_bookings_per_block

\* Number(meta?.max_bookings_per_block) || Number(meta?.max_persons) || null
maxPerBlock(meta) ==
    OrElse(OrElse(meta.max_bookings_per_block, meta.max_persons), NULL)

\* what getMaxFor resolves for a product: v = Number.isFinite(max) ? max : null,
\* and null from the catch when the request fails
getMaxValue(meta) ==
    IF ~meta.ok THEN NULL
    ELSE IF IsFin(maxPerBlock(meta)) THEN maxPerBlock(meta) ELSE NULL

\* settings with a capacity, with none, with a zero one, with max_persons only,
\* and requests that fail
MetaMaps ==
    { (1 :> Meta(TRUE, Big(0, 12), NULL)) @@ (2 :> MetaFails),
      (1 :> Meta(TRUE, NumZero, NULL)) @@ (2 :> Meta(TRUE, NULL, NULL)),
      (1 :> Meta(TRUE, NumZero, Big(0, 8))) @@ (2 :> Meta(TRUE, NaN, NumZero)) }

\* the Map getMaxMap returns for the products of the groups
totalsOfMeta(metas) == [pid \in DOMAIN metas |-> getMaxValue(metas[pid])]

TotalsMaps == { totalsOfMeta(m) : m \in MetaMaps }

AggIdle ==
    /\ aRecs = <<>>
    /\ aPerm = <<>>
    /\ aAllowed = {}
    /\ aNames = <<>>
    /\ aMeta = <<>>
    /\ aTotals = <<>>
    /\ aServer = <<>>
    /\ aClient = <<>>
    /\ aFallback = <<>>
    /\ aPc = "idle"

AggInit ==
    /\ \E T \in SUBSET RecordPool :
          /\ Cardinality(T) <= MaxRecs
          /\ aRecs \in Orderings(T)
          /\ aPerm \in Orderings(T)
    /\ aAllowed \in {{}, {1}}
    /\ aNames \in NameMaps
    /\ aMeta \in MetaMaps
    /\ aTotals = totalsOfMeta(aMeta)
    /\ aServer = <<>>
    /\ aClient = <<>>
    /\ aFallback = <<>>
    /\ aPc = "input"

\* handleAvailabilityRange aggregates the fetched records
AggregateOnServer ==
    /\ aPc = "input"
    /\ aServer' = << serverSlots(aRecs, aAllowed, aNames, aTotals),
                     serverSlots(aPerm, aAllowed, aNames, aTotals) >>
    /\ aPc' = "served"
    /\ UNCHANGED <<aRecs, aPerm, aAllowed, aNames, aMeta, aTotals, aClient, aFallback>>
    /\ UNCHANGED exceptAgg

\* getAvailabilityBlocks converts the server's slots
ClientBuildFromServer ==
    /\ aPc = "served"
    /\ aServer[1].status = "ok" /\ aServer[2].status = "ok"
    /\ aClient' = << buildFromServer(aServer[1].data), buildFromServer(aServer[2].data) >>
    /\ aPc' = "built"
    /\ UNCHANGED <<aRecs, aPerm, aAllowed, aNames, aMeta, aTotals, aServer, aFallback>>
    /\ UNCHANGED exceptAgg

\* the events getCalendarBookings hands to the fallback for a record list
eventsOf(recs) ==
    [i \in 1 .. Len(recs) |-> normalizeEvent(serverEvent(recs[i], BrowserTz))]

\* getAvailabilityBlocks aggregates the bookings itself
ClientBuildFallback ==
    /\ aPc = "input"
    /\ aFallback' = << buildFallbackFromBookings(eventsOf(aRecs), aNames),
                       buildFallbackFromBookings(eventsOf(aPerm), aNames) >>
    /\ aPc' = "fallback"
    /\ UNCHANGED <<aRecs, aPerm, aAllowed, aNames, aMeta, aTotals, aServer, aClient>>
    /\ UNCHANGED exceptAgg

AggNext == AggregateOnServer \/ ClientBuildFromServer \/ ClientBuildFallback

TimeIdle ==
    /\ tInput = RawNull
    /\ tTz = "UTC"
    /\ tResult = NULL
    /\ tFormatted = NoFields
    /\ tPc = "idle"
    /\ tGroups = <<>>

----------------------------------------------------------------------------
(***************************************************************************)
(* Properties of the aggregators                                           *)
(***************************************************************************)

\* the (product, start) groups of a server result with their used and end
serverGroupSet(res) ==
    { [product_id |-> res.data[i].product_id, start |-> res.data[i].start,
       used |-> res.data[i].used, end |-> res.data[i].end] : i \in 1 .. Len(res.data) }

\* the groups of a client result with their used and end
clientGroupSet(days) ==
    UNION { { [product_id |-> days[k][i].productId, start |-> days[k][i].start,
               used |-> days[k][i].used, end |-> days[k][i].end] :
                 i \in 1 .. Len(days[k]) } : k \in DOMAIN days }

\* C8: for every permutation of the same input records the aggregation gives
\* the same (product, start) groups with the same used and the same end, in
\* the server aggregator and in the client fallback aggregator.
C8_AggregationOrderIndependent ==
    /\ aPc \in {"served", "built"} =>
          /\ aServer[1].status = aServer[2].status
          /\ serverGroupSet(aServer[1]) = serverGroupSet(aServer[2])
    /\ aPc = "fallback" =>
          clientGroupSet(aFallback[1]) = clientGroupSet(aFallback[2])

\* a day's list is ascending by (start, product name)
IsSorted(list) ==
    \A i, j \in 1 .. Len(list) : i < j => compareSlots(list[i], list[j]) <= 0

\* the order of a day's slots: which product at which start under which name
slotOrder(list) ==
    [i \in 1 .. Len(list) |->
        [productId |-> list[i].productId, start |-> list[i].start,
         productName |-> list[i].productName]]

sameOrder(daysA, daysB) ==
    /\ DOMAIN daysA = DOMAIN daysB
    /\ \A k \in DOMAIN daysA : slotOrder(daysA[k]) = slotOrder(daysB[k])

\* C9: each date's slots are sorted ascending by (start, product name) and
\* come in the same sequence for every permutation of the input records, also
\* when slots of different products share start and display name.
C9_SortedOrderIndependent ==
    /\ aPc = "built" =>
          /\ \A k \in DOMAIN aClient[1] : IsSorted(aClient[1][k])
          /\ sameOrder(aClient[1], aClient[2])
    /\ aPc = "fallback" =>
          /\ \A k \in DOMAIN aFallback[1] : IsSorted(aFallback[1][k])
          /\ sameOrder(aFallback[1], aFallback[2])

\* the participants of a record: a number, or the sum of the numbers of an
\* array or a keyed object, and 1 when that is absent or below 1
participantsOf(pc) ==
    CASE pc.k = "number" /\ IsFin(pc.n) /\ NumGe(pc.n, NumOne) -> pc.n
      [] pc.k \in {"array", "object"} /\ NumGe(SumCounts(pc.items), NumOne) ->
            SumCounts(pc.items)
      [] OTHER -> NumOne

RECURSIVE groupParticipants(_, _, _, _)
\* the participants of the records of recs that pass the product filter and
\* belong to the group (pid, start)
groupParticipants(recs, allowedIds, pid, start) ==
    IF recs = <<>> THEN NumZero
    ELSE LET b    == recs[Len(recs)]
             rest == groupParticipants(SubSeq(recs, 1, Len(recs) - 1), allowedIds, pid, start)
         IN  IF /\ allowedIds = {} \/ b.product_id \in allowedIds
                /\ b.product_id = pid
                /\ parseStartEnd(b.start, HostTz) = start
             THEN NumAdd(rest, participantsOf(b.person_counts))
             ELSE rest

\* the capacity of the product cannot be resolved: the settings request fails,
\* or no capacity field holds a number other than zero
Unresolvable(meta) ==
    \/ ~meta.ok
    \/ /\ Falsy(meta.max_bookings_per_block)
       /\ Falsy(meta.max_persons)

\* a slot (of product pid, starting at start) over the records recs
slotAsClaimed(recs, pid, start, used, total) ==
    /\ total # NumZero
    /\ Unresolvable(aMeta[pid]) =>
          /\ total = NULL
          /\ used = groupParticipants(recs, aAllowed, pid, start)

\* the record lists the two results of each stage were made of
inputOf(k) == IF k = 1 THEN aRecs ELSE aPerm

\* C11: a product whose capacity cannot be resolved yields slots with
\* total = null and used = the sum of the participant counts of the slot's
\* group, and no slot has total = 0, in the server's answer and after the
\* client's conversion
C11_UnknownCapacityIsNull ==
    /\ aPc \in {"served", "built"} =>
          \A k \in 1 .. 2 : aServer[k].status = "ok" =>
             \A i \in 1 .. Len(aServer[k].data) :
                LET it == aServer[k].data[i]
                IN  slotAsClaimed(inputOf(k), it.product_id, it.start, it.used, it.total)
    /\ aPc = "built" =>
          \A k \in 1 .. 2 : \A day \in DOMAIN aClient[k] :
             \A j \in 1 .. Len(aClient[k][day]) :
                LET slot == aClient[k][day][j]
                IN  slotAsClaimed(inputOf(k), slot.productId, slot.start, slot.used,
                                  slot.total)

\* the client has converted a slot of a product without resolvable capacity that
\* two records were folded into
C11_Witness ==
    /\ aPc = "built"
    /\ \E day \in DOMAIN aClient[1] : \E j \in 1 .. Len(aClient[1][day]) :
          LET slot == aClient[1][day][j]
          IN  /\ Unresolvable(aMeta[slot.productId])
              /\ slot.total = NULL
              /\ NumGe(slot.used, Big(0, 3))
              /\ Cardinality({ i \in 1 .. Len(aRecs) :
                                 /\ aRecs[i].product_id = slot.productId
                                 /\ parseStartEnd(aRecs[i].start, HostTz) = slot.start }) >= 2

----------------------------------------------------------------------------
(***************************************************************************)
(* SpecClient: one WooCommerceService instance.  Calls of                  *)
(* getAvailabilityBlocks and getCalendarBookings interleave at their       *)
(* awaits with the responses of the server and with the clock.             *)
(***************************************************************************)

\* at most MaxCalls calls are made, the clock runs to MaxClock and the
\* upstream's data changes MaxVer times
MaxCalls == 2

MaxClock == 1

MaxVer == 1

\* the date range (startDate, endDate) the calendar asks for
Ranges == {<<"2024-06-01", "2024-06-30">>}

\* the productIds arguments: none, and the same two ids in both orders
ProductIdLists == {<<>>, <<3, 7>>, <<7, 3>>}

AvailParams ==
    [startDate : {r[1] : r \in Ranges}, endDate : {r[2] : r \in Ranges},
     productIds : ProductIdLists, preferBookings : BOOLEAN]

RECURSIVE sortIds(_)
\* productIds.slice().sort((a, b) => a - b)
sortIds(ids) ==
    IF ids = <<>> THEN <<>>
    ELSE LET m    == CHOOSE i \in 1 .. Len(ids) : \A j \in 1 .. Len(ids) : ids[i] <= ids[j]
             rest == SubSeq(ids, 1, m - 1) \o SubSeq(ids, m + 1, Len(ids))
         IN  <<ids[m]>> \o sortIds(rest)

\* the cache key with the ids joined in the order given
availabilityKey_Unsorted(params) ==
    <<params.startDate, params.endDate, params.productIds>>

\* cacheKey = `${startDate}|${endDate}|${keyIds}` of getAvailabilityBlocks
availabilityKey(params) ==
    <<params.startDate, params.endDate, sortIds(params.productIds)>>

\* status = "" of the calendar's calls: the string of no characters, written as
\* a sequence so that the keys of both maps compare
EmptyStatus == <<>>

\* key = `${startDate}|${endDate}|${status}` of getCalendarBookings
monthKey(startDate, endDate, status) == <<startDate, endDate, status>>

\* What a response carries, reduced to where it was built from and which
\* version of the upstream's data it shows; ver = -1 is the empty result of
\* a failed request.
Data(src, ver) == [src |-> src, ver |-> ver]

NoData == Data("none", -1)

\* what a request of the service meets: a 2xx body with success: true, a
\* network error, a non-2xx status, a 2xx body that is no JSON, or a 2xx
\* body with success: false
Answers == {"ok", "network", "status", "json", "unsuccessful"}

\* whether the dynamic import of the auth module succeeded, and the answer to
\* the assigned-bookings request made after it
AssignedInputs == { <<FALSE, "none">> } \cup ({TRUE} \X Answers)

\* how a promise settles
Resolved(value) == [state |-> "resolved", value |-> value]

Rejected == [state |-> "rejected", value |-> NoData]

\* try { body } catch { handler }
Try(body, handler) == IF body.state = "rejected" THEN handler ELSE body

\* the request of buildFromServer: safeFetch rejects on a network error,
\* !res.ok throws, res.json() rejects on a bad body; a body without a data
\* array yields no slots
availabilityRequest(answer, ver) ==
    CASE answer \in {"network", "status", "json"} -> Rejected
      [] answer = "unsuccessful" -> Resolved(Data("server", -1))
      [] OTHER -> Resolved(Data("server", ver))

\* getBookings of the service, by the answer to the last attempt it makes
\* (the second one when the first threw): that attempt's error is thrown,
\* success: false is thrown, and the outer catch returns []
serviceGetBookings(last, ver) ==
    Try(IF last = "ok" THEN Resolved(Data("bookings", ver)) ELSE Rejected,
        Resolved(Data("bookings", -1)))

\* getCalendarBookings after getBookings has settled: the catch returns []
getCalendarBookings(bookings) == Try(bookings, Resolved(Data("bookings", -1)))

\* the body of getInstructorAssignedBookings: the import of the auth module,
\* then the request; res.json().catch(() => null), and !res.ok or
\* !json?.success return []
assignedBookings(imported, answer, ver) ==
    CASE ~imported -> Rejected
      [] answer = "network" -> Rejected
      [] answer \in {"status", "json", "unsuccessful"} -> Resolved(Data("assigned", -1))
      [] OTHER -> Resolved(Data("assigned", ver))

\* the body without the outer try
getInstructorAssignedBookings_NoCatch(imported, answer, ver) ==
    assignedBookings(imported, answer, ver)

\* getInstructorAssignedBookings: the outer catch returns []
getInstructorAssignedBookings(imported, answer, ver) ==
    Try(assignedBookings(imported, answer, ver), Resolved(Data("assigned", -1)))

\* a load promise of getAvailabilityBlocks
Load(key, params, pc, events, result) ==
    [key |-> key, params |-> params, pc |-> pc, events |-> events, result |-> result,
     serverRequests |-> IF pc = "server" THEN 1 ELSE 0,
     bookingsRequests |-> IF pc = "bookings" THEN 1 ELSE 0]

\* a call and what it received: how is "cache", "inflight" (it joined a load)
\* or "load" (it started one); age is the age of the cache entry served
Call(fn, params, key, how, load, state, result, age, joinable) ==
    [fn |-> fn, params |-> params, key |-> key, how |-> how, load |-> load,
     state |-> state, result |-> result, age |-> age, joinable |-> joinable]

\* the loads of a key that have not settled
Unsettled(key) == { i \in 1 .. Len(cLoads) : cLoads[i].key = key /\ cLoads[i].pc # "settled" }

ClientIdle ==
    /\ cNow = 0
    /\ cVer = 0
    /\ availabilityCache = <<>>
    /\ availabilityInflight = <<>>
    /\ monthCache = <<>>
    /\ cLoads = <<>>
    /\ cCalls = <<>>
    /\ cStoredAt = <<>>
    /\ cHung = FALSE

ClientInit == ClientIdle

\* f with key k set to v
Put(f, k, v) == [x \in DOMAIN f \cup {k} |-> IF x = k THEN v ELSE f[x]]

\* f without key k
Drop(f, k) == [x \in DOMAIN f \ {k} |-> f[x]]

\* getCalendarBookings up to its first await, as buildFallbackFromBookings
\* calls it: a cached month is returned, otherwise the bookings are requested
FallbackStart(load) ==
    LET mk == monthKey(load.params.startDate, load.params.endDate, EmptyStatus)
    IN  IF mk \in DOMAIN monthCache
        THEN [load EXCEPT !.pc = "names", !.events = monthCache[mk]]
        ELSE [load EXCEPT !.pc = "bookings", !.bookingsRequests = @ + 1]

\* getAvailabilityBlocks(params) up to its return: a cached value, the
\* promise in flight for the key, or a new load promise set in flight
CallAvailabilityBlocks(params) ==
    /\ LET key == availabilityKey(params)
           open == { i \in 1 .. Len(cLoads) :
                       /\ cLoads[i].pc # "settled"
                       /\ cLoads[i].params.startDate = params.startDate
                       /\ cLoads[i].params.endDate = params.endDate
                       /\ sortIds(cLoads[i].params.productIds) = sortIds(params.productIds) }
       IN  /\ Len(cCalls) < MaxCalls
           /\ IF key \in DOMAIN availabilityCache
              THEN /\ cCalls' = Append(cCalls,
                         Call("availability", params, key, "cache", 0, "resolved",
                              availabilityCache[key], cNow - cStoredAt[<<"avail", key>>], open))
                   /\ UNCHANGED <<availabilityInflight, cLoads>>
              ELSE IF key \in DOMAIN availabilityInflight
              THEN /\ cCalls' = Append(cCalls,
                         Call("availability", params, key, "inflight",
                              availabilityInflight[key], "pending", NoData, -1, open))
                   /\ UNCHANGED <<availabilityInflight, cLoads>>
              ELSE LET fresh == Load(key, params, "server", NoData, NoData)
                       load  == IF params.preferBookings
                                THEN FallbackStart([fresh EXCEPT !.pc = "start", !.serverRequests = 0])
                                ELSE fresh
                       id    == Len(cLoads) + 1
                   IN  /\ cLoads' = Append(cLoads, load)
                       /\ availabilityInflight' = Put(availabilityInflight, key, id)
                       /\ cCalls' = Append(cCalls,
                             Call("availability", params, key, "load", id, "pending",
                                  NoData, -1, open))
           /\ UNCHANGED <<cNow, cVer, availabilityCache, monthCache, cStoredAt>>
    /\ UNCHANGED cHung
    /\ UNCHANGED exceptClient

\* the calls waiting for load id receive its result
Resolve(calls, id, result) ==
    [i \in 1 .. Len(calls) |->
        IF calls[i].load = id /\ calls[i].state = "pending"
        THEN [calls[i] EXCEPT !.state = "resolved", !.result = result]
        ELSE calls[i]]

\* the load without the finally: the key stays in the in-flight map
Settle_NoDelete(id, data) ==
    /\ cLoads' = [cLoads EXCEPT ![id].pc = "settled", ![id].result = data]
    /\ availabilityCache' = Put(availabilityCache, cLoads[id].key, data)
    /\ cStoredAt' = Put(cStoredAt, <<"avail", cLoads[id].key>>, cNow)
    /\ UNCHANGED availabilityInflight
    /\ cCalls' = Resolve(cCalls, id, data)

\* the load stores its data, leaves the in-flight map and resolves
Settle(id, data) ==
    /\ cLoads' = [cLoads EXCEPT ![id].pc = "settled", ![id].result = data]
    /\ availabilityCache' = Put(availabilityCache, cLoads[id].key, data)
    /\ cStoredAt' = Put(cStoredAt, <<"avail", cLoads[id].key>>, cNow)
    /\ availabilityInflight' = Drop(availabilityInflight, cLoads[id].key)
    /\ cCalls' = Resolve(cCalls, id, data)

\* the calls waiting for load id are rejected
RejectAll(calls, id) ==
    [i \in 1 .. Len(calls) |->
        IF calls[i].load = id /\ calls[i].state = "pending"
        THEN [calls[i] EXCEPT !.state = "rejected"]
        ELSE calls[i]]

\* the load promise rejects: the finally leaves the in-flight map
Fail(id) ==
    /\ cLoads' = [cLoads EXCEPT ![id].pc = "settled"]
    /\ availabilityInflight' = Drop(availabilityInflight, cLoads[id].key)
    /\ cCalls' = RejectAll(cCalls, id)
    /\ UNCHANGED availabilityCache

\* buildFromServer returns: the slots are stored
ServerResponds(id, answer) ==
    /\ ~cHung
    /\ id \in 1 .. Len(cLoads)
    /\ cLoads[id].pc = "server"
    /\ availabilityRequest(answer, cVer).state = "resolved"
    /\ Settle(id, availabilityRequest(answer, cVer).value)
    /\ UNCHANGED <<cNow, cVer, monthCache>>
    /\ UNCHANGED cHung
    /\ UNCHANGED exceptClient

\* buildFromServer throws (network error, non-2xx, bad JSON): the catch
\* starts buildFallbackFromBookings
ServerFails(id, answer) ==
    /\ ~cHung
    /\ id \in 1 .. Len(cLoads)
    /\ cLoads[id].pc = "server"
    /\ availabilityRequest(answer, cVer).state = "rejected"
    /\ cLoads' = [cLoads EXCEPT ![id] = FallbackStart(cLoads[id])]
    /\ UNCHANGED <<cNow, cVer, availabilityCache, availabilityInflight, monthCache,
                   cCalls, cStoredAt>>
    /\ UNCHANGED cHung
    /\ UNCHANGED exceptClient

\* getBookings returns inside the fallback's getCalendarBookings: what it
\* resolved to is stored in monthCache and grouped; were getCalendarBookings
\* to reject, the fallback of the try (preferBookings) would be caught and
\* started again, and the fallback of the catch would reject the load
FallbackBookingsReturn(id, last) ==
    /\ ~cHung
    /\ id \in 1 .. Len(cLoads)
    /\ cLoads[id].pc = "bookings"
    /\ LET bookings == serviceGetBookings(last, cVer)
           events   == getCalendarBookings(bookings)
           mk       == monthKey(cLoads[id].params.startDate, cLoads[id].params.endDate, EmptyStatus)
       IN  /\ IF events.state = "resolved"
              THEN /\ cLoads' = [cLoads EXCEPT ![id].pc = "names",
                                               ![id].events = events.value]
                   /\ UNCHANGED <<availabilityCache, availabilityInflight, cCalls>>
              ELSE IF cLoads[id].serverRequests = 0 /\ cLoads[id].bookingsRequests = 1
              THEN /\ cLoads' = [cLoads EXCEPT ![id] = FallbackStart(cLoads[id])]
                   /\ UNCHANGED <<availabilityCache, availabilityInflight, cCalls>>
              ELSE Fail(id)
           /\ IF bookings.state = "resolved"
              THEN /\ monthCache' = Put(monthCache, mk, bookings.value)
                   /\ cStoredAt' = Put(cStoredAt, <<"month", mk>>, cNow)
              ELSE UNCHANGED <<monthCache, cStoredAt>>
    /\ UNCHANGED <<cNow, cVer>>
    /\ UNCHANGED cHung
    /\ UNCHANGED exceptClient

\* the product names have resolved (an empty list has none to resolve): the
\* fallback's slots are stored
FallbackDone(id) ==
    /\ id \in 1 .. Len(cLoads)
    /\ cLoads[id].pc = "names"
    /\ ~cHung \/ cLoads[id].events.ver = -1
    /\ Settle(id, cLoads[id].events)
    /\ UNCHANGED <<cNow, cVer, monthCache>>
    /\ UNCHANGED cHung
    /\ UNCHANGED exceptClient

\* getCalendarBookings({startDate, endDate}) called by the calendar itself,
\* up to its return or its first await
CallCalendarBookings(range) ==
    /\ LET mk == monthKey(range[1], range[2], EmptyStatus)
       IN  /\ Len(cCalls) < MaxCalls
           /\ IF mk \in DOMAIN monthCache
              THEN cCalls' = Append(cCalls,
                       Call("calendar", range, mk, "cache", 0, "resolved", monthCache[mk],
                            cNow - cStoredAt[<<"month", mk>>], {}))
              ELSE cCalls' = Append(cCalls,
                       Call("calendar", range, mk, "fetch", 0, "pending", NoData, -1, {}))
           /\ UNCHANGED <<cNow, cVer, availabilityCache, availabilityInflight, monthCache,
                          cLoads, cStoredAt>>
    /\ UNCHANGED cHung
    /\ UNCHANGED exceptClient

\* getBookings returns to a getCalendarBookings call: what it resolved to is
\* stored in monthCache, and the call settles as getCalendarBookings does
CalendarBookingsReturn(c, last) ==
    /\ ~cHung
    /\ c \in 1 .. Len(cCalls)
    /\ cCalls[c].fn = "calendar" /\ cCalls[c].state = "pending"
    /\ LET bookings == serviceGetBookings(last, cVer)
           events   == getCalendarBookings(bookings)
       IN  /\ IF bookings.state = "resolved"
              THEN /\ monthCache' = Put(monthCache, cCalls[c].key, bookings.value)
                   /\ cStoredAt' = Put(cStoredAt, <<"month", cCalls[c].key>>, cNow)
              ELSE UNCHANGED <<monthCache, cStoredAt>>
           /\ cCalls' = [cCalls EXCEPT ![c].state = events.state,
                                       ![c].result = events.value]
    /\ UNCHANGED <<cNow, cVer, availabilityCache, availabilityInflight, cLoads>>
    /\ UNCHANGED cHung
    /\ UNCHANGED exceptClient

\* getInstructorAssignedBookings(range), from its call to its settling
CallInstructorAssignedBookings(range, imported, answer) ==
    /\ ~cHung
    /\ Len(cCalls) < MaxCalls
    /\ LET events == getInstructorAssignedBookings(imported, answer, cVer)
       IN  cCalls' = Append(cCalls,
              Call("assigned", range, range, "fetch", 0, events.state, events.value,
                   -1, {}))
    /\ UNCHANGED <<cNow, cVer, availabilityCache, availabilityInflight, monthCache,
                   cLoads, cStoredAt>>
    /\ UNCHANGED cHung
    /\ UNCHANGED exceptClient

\* time passes
ClientTick ==
    /\ cNow < MaxClock
    /\ cNow' = cNow + 1
    /\ UNCHANGED <<cVer, availabilityCache, availabilityInflight, monthCache, cLoads,
                   cCalls, cStoredAt>>
    /\ UNCHANGED cHung
    /\ UNCHANGED exceptClient

\* a booking is made or changed upstream
UpstreamChanges ==
    /\ cVer < MaxVer
    /\ cVer' = cVer + 1
    /\ UNCHANGED <<cNow, availabilityCache, availabilityInflight, monthCache, cLoads,
                   cCalls, cStoredAt>>
    /\ UNCHANGED cHung
    /\ UNCHANGED exceptClient

\* the server stops answering: no readystatechange and no error reaches
\* xhrFetch, which sets no timeout
ServerHangs ==
    /\ ~cHung
    /\ cHung' = TRUE
    /\ UNCHANGED <<cNow, cVer, availabilityCache, availabilityInflight, monthCache,
                   cLoads, cCalls, cStoredAt>>
    /\ UNCHANGED exceptClient

ClientNext ==
    \/ \E params \in AvailParams : CallAvailabilityBlocks(params)
    \/ \E id \in 1 .. MaxCalls, answer \in Answers : ServerResponds(id, answer)
    \/ \E id \in 1 .. MaxCalls, answer \in Answers : ServerFails(id, answer)
    \/ \E id \in 1 .. MaxCalls, last \in Answers : FallbackBookingsReturn(id, last)
    \/ \E id \in 1 .. MaxCalls : FallbackDone(id)
    \/ \E range \in Ranges : CallCalendarBookings(range)
    \/ \E c \in 1 .. MaxCalls, last \in Answers : CalendarBookingsReturn(c, last)
    \/ \E range \in Ranges, i \in AssignedInputs :
          CallInstructorAssignedBookings(range, i[1], i[2])
    \/ ClientTick
    \/ UpstreamChanges

----------------------------------------------------------------------------
(***************************************************************************)
(* Properties of the client service                                        *)
(***************************************************************************)
AvailabilityCalls == { i \in 1 .. Len(cCalls) : cCalls[i].fn = "availability" }

\* C1: a call of getAvailabilityBlocks made while a load for the same
\* startDate, endDate and (order-insensitive) productIds is running and
\* nothing is cached for the key starts no second load: it joins the running
\* load, whose server request and whose bookings request each run at most
\* once, and the callers of one load all receive that load's result.
C1_ConcurrentCallsShareOneLoad ==
    /\ \A c \in AvailabilityCalls :
          (cCalls[c].how # "cache" /\ cCalls[c].joinable # {}) =>
              /\ cCalls[c].how = "inflight"
              /\ cCalls[c].load \in cCalls[c].joinable
    /\ \A id \in 1 .. Len(cLoads) :
          /\ cLoads[id].serverRequests <= 1
          /\ cLoads[id].bookingsRequests <= 1
          /\ cLoads[id].serverRequests + cLoads[id].bookingsRequests >= 1
                \/ cLoads[id].pc \in {"names", "settled"}
    /\ \A c \in AvailabilityCalls :
          (cCalls[c].how # "cache" /\ cCalls[c].state = "resolved") =>
              /\ cLoads[cCalls[c].load].pc = "settled"
              /\ cCalls[c].result = cLoads[cCalls[c].load].result

\* two calls with the ids in different orders share one load and its result
C1_Witness ==
    \E c, d \in AvailabilityCalls :
        /\ c < d
        /\ cCalls[c].how = "load" /\ cCalls[d].how = "inflight"
        /\ cCalls[c].params.productIds # cCalls[d].params.productIds
        /\ cCalls[c].load = cCalls[d].load
        /\ cCalls[c].state = "resolved" /\ cCalls[d].state = "resolved"
        /\ cCalls[c].result = cCalls[d].result
        /\ cCalls[c].result.src = "server"

\* the age below which the claim lets a client cache serve a value
ClientTtl == 1

\* C3: availabilityCache and monthCache serve a stored value only while its
\* age is below a TTL; a later call for the key loads afresh.
C3_ClientCachesExpire ==
    \A c \in 1 .. Len(cCalls) : cCalls[c].how = "cache" => cCalls[c].age < ClientTtl
----------------------------------------------------------------------------
(***************************************************************************)
(* SpecServer: the route handlers getBookings and handleAvailabilityRange  *)
(* under concurrent requests.  A handler runs from one await to the next   *)
(* in one step; the upstream's answers, the clock and other requests come  *)
(* in between.                                                             *)
(***************************************************************************)

\* at most MaxReqs requests arrive and the clock is read at MaxTicks later
\* instants
MaxReqs == 2

MaxTicks == 1

\* per_page: 100 in the handlers, scaled down
PerPage == 2

\* the page ceiling of both pagination loops
MAX_PAGES == 5

BOOKINGS_TTL_MS == 180 * 1000

AVAIL_TTL == 10 * 60 * 1000

PRODUCT_SETTINGS_TTL == 12 * 60 * 60 * 1000

\* the instants Date.now() shows after the start at 0: each cache's expiry
\* for an entry stored at 0, and the millisecond before it
ClockInstants ==
    { BOOKINGS_TTL_MS - 1, BOOKINGS_TTL_MS, AVAIL_TTL - 1, AVAIL_TTL,
      PRODUCT_SETTINGS_TTL - 1, PRODUCT_SETTINGS_TTL }

\* the record of RecordPool with the id i
Rec(i) == CHOOSE b \in RecordPool : b.id = i

\* more bookings than the page ceiling lets a handler fetch
LongList ==
    [i \in 1 .. (MAX_PAGES * PerPage + 1) |->
        Booking(10 + i, 2, RawNumber(SecPlus(SlotSec, 60 * i)), RawNull, CountsAbsent)]

\* the bookings the upstream holds for the requested range: none, less than
\* a page, more than a page, a page with a record whose start is no date, and
\* more than the ceiling
Datasets ==
    { <<>>,
      <<Rec(1)>>,
      <<Rec(1), Rec(4), Rec(5)>>,
      <<Rec(6), Rec(1), Rec(5)>>,
      LongList }

\* page p of the upstream's answer to per_page = PerPage
PageOf(data, p) ==
    SubSeq(data, (p - 1) * PerPage + 1,
           IF p * PerPage < Len(data) THEN p * PerPage ELSE Len(data))

\* the names and the capacities the upstream holds for the products
upstreamNames == (1 :> 10) @@ (2 :> 200)

upstreamMeta == (1 :> Meta(TRUE, Big(0, 12), NULL)) @@ (2 :> Meta(TRUE, NumZero, NULL))

upstreamMax == totalsOfMeta(upstreamMeta)

\* start_date and end_date of the requests
RangeMin == DateUTC([y |-> 2024, mo |-> 6, d |-> 1, h |-> 0, mi |-> 0, se |-> 0])

RangeMax == DateUTC([y |-> 2024, mo |-> 6, d |-> 30, h |-> 23, mi |-> 59, se |-> 59])

\* cacheKey of getBookings: `${start_date}|${end_date}|${status}`
bookingsKey == <<"2024-06-01", "2024-06-30", "">>

\* cacheKey of handleAvailabilityRange: the dates and the sorted allowedIds
availKey(allowedIds) == <<"2024-06-01", "2024-06-30", allowedIds>>

\* the cache test with the bound included
isFresh_Inclusive(now, ts, ttl) == now - ts <= ttl

\* cached && Date.now() - cached.ts < TTL
isFresh(now, ts, ttl) == now - ts < ttl

\* parseBookingDateToMs: a value that is no date becomes Date.now()
parseBookingDateToMs(val, now) ==
    CASE val.k = "number" /\ IsFin(val.n) ->
            IF NumLt(MS_THRESHOLD, val.n) THEN val.n ELSE NumMul(val.n, 1000)
      [] val.k = "offset" /\ val.valid -> DateParse(val, HostTz)
      [] val.k = "naive" /\ val.valid -> DateUTC(val.f)
      [] OTHER -> now

RECURSIVE filterByRange(_, _)
\* the defensive date filter of getBookings
filterByRange(bookings, now) ==
    IF bookings = <<>> THEN <<>>
    ELSE LET rest == filterByRange(SubSeq(bookings, 1, Len(bookings) - 1), now)
             b    == bookings[Len(bookings)]
             s    == parseBookingDateToMs(b.start, now)
         IN  IF NumGe(s, RangeMin) /\ NumGe(RangeMax, s) THEN Append(rest, b) ELSE rest

\* what a handler sends: the HTTP status (0: nothing sent yet), success,
\* data, the cached flag, and unavailable: the body carries
\* bookings_available: false and credentials_missing: true
Response(status, success, data, cached) ==
    [status |-> status, success |-> success, data |-> data, cached |-> cached,
     unavailable |-> FALSE]

\* getBookings without a configuration: res.json({success: true, data: [],
\* total: 0, message, bookings_available: false, credentials_missing: true})
credentialsMissing ==
    [Response(200, TRUE, <<>>, FALSE) EXCEPT !.unavailable = TRUE]

\* handleAvailabilityRange without a configuration: res.status(400).json({
\* success: false, error: "WooCommerce credentials not configured"})
credentialsNotConfigured == Response(400, FALSE, <<>>, FALSE)

NoResponse == Response(0, FALSE, <<>>, FALSE)

\* a request in a handler.  pc is the await it stands at: "page" (a page of
\* bookings), "names" (the products request), "max" (getMaxMap), "map" (the
\* titles and the site timezone), or "done".  found is the age of the cache
\* entry the request met on arrival (-1: none), asked the pages requested so
\* far in the order of the requests, pages the number of pages received,
\* failedPage the page whose request failed (0: none), maxAt when each
\* getMaxFor request of this handler came back, hits the ages of the
\* productSettingsCache entries it used, doneAt when it responded.
Request(handler, key, allowedIds, pc, how, found, response, now) ==
    [handler |-> handler, key |-> key, allowedIds |-> allowedIds, pc |-> pc,
     how |-> how, found |-> found, page |-> 1,
     asked |-> IF pc = "page" THEN <<1>> ELSE <<>>, all |-> <<>>, pages |-> 0,
     failedPage |-> 0, bookings |-> <<>>, nameMap |-> <<>>, totals |-> <<>>,
     pending |-> {}, hits |-> {}, maxAt |-> <<>>, response |-> response,
     doneAt |-> IF pc = "done" THEN now ELSE -1]

ServerIdle ==
    /\ sBoot = NumZero
    /\ sNow = 0
    /\ sTicks = 0
    /\ sConfig = TRUE
    /\ sUpstream = <<>>
    /\ bookingsCache = <<>>
    /\ AVAIL_RANGE_CACHE = <<>>
    /\ productSettingsCache = <<>>
    /\ sReqs = <<>>

\* the process has started: the caches are empty; the credentials are
\* configured or not
\* the server runs inside the requested range (2024-06-15T10:00:00Z) or
\* after it (2025-01-01T00:00:00Z)
BootInstants == { NumMul(SlotSec, 1000), NumMul(Big(1735, 689600), 1000) }

ServerInit ==
    /\ sBoot \in BootInstants
    /\ sNow = 0
    /\ sTicks = 0
    /\ sConfig \in BOOLEAN
    /\ sUpstream \in Datasets
    /\ bookingsCache = <<>>
    /\ AVAIL_RANGE_CACHE = <<>>
    /\ productSettingsCache = <<>>
    /\ sReqs = <<>>

\* the timezones getSiteTz resolves for the site
SiteTzs == {"UTC", "America/New_York"}

srvOthers == <<sBoot, sNow, sTicks, sConfig, sUpstream>>

\* getBookings from its entry to its first await: the answer without
\* credentials, the answer from bookingsCache, or the request of page 1
getBookings ==
    /\ Len(sReqs) < MaxReqs
    /\ LET key   == bookingsKey
           found == IF key \in DOMAIN bookingsCache
                    THEN sNow - bookingsCache[key].ts ELSE -1
       IN  sReqs' = Append(sReqs,
              IF ~sConfig
              THEN Request("bookings", key, {}, "done", "none", found,
                           credentialsMissing, sNow)
              ELSE IF /\ key \in DOMAIN bookingsCache
                      /\ isFresh(sNow, bookingsCache[key].ts, BOOKINGS_TTL_MS)
              THEN Request("bookings", key, {}, "done", "cache", found,
                           Response(200, TRUE, bookingsCache[key].data, TRUE), sNow)
              ELSE Request("bookings", key, {}, "page", "fetch", found, NoResponse, sNow))
    /\ UNCHANGED <<srvOthers, bookingsCache, AVAIL_RANGE_CACHE, productSettingsCache>>
    /\ UNCHANGED exceptServer

\* the request r after the answer to its page request: a failure (timeout,
\* non-2xx, unparseable body) leaves the loop, a batch is appended
afterPage(r, ok) ==
    IF ok
    THEN [r EXCEPT !.all = @ \o PageOf(sUpstream, r.page), !.pages = @ + 1]
    ELSE [r EXCEPT !.failedPage = r.page]

\* the pagination loop without its ceiling
morePages_NoCeiling(r, ok) ==
    /\ ok
    /\ Len(PageOf(sUpstream, r.page)) >= PerPage

\* page++, and the request for that page is sent
nextPage(r) == [r EXCEPT !.page = @ + 1, !.asked = Append(@, r.page + 1)]

\* the pagination loop goes on to the next page
morePages(r, ok) ==
    /\ ok
    /\ Len(PageOf(sUpstream, r.page)) >= PerPage
    /\ r.page + 1 <= MAX_PAGES

\* if (!bookingsAvailable) the empty answer, else on to the titles
bookingsFiltered(r, bookings) ==
    IF bookings = <<>>
    THEN [r EXCEPT !.pc = "done", !.doneAt = sNow,
                   !.response = Response(200, TRUE, <<>>, FALSE)]
    ELSE [r EXCEPT !.pc = "map", !.bookings = bookings]

\* Date.now() as an instant
dateNow == NumAdd(sBoot, Big(0, sNow))

\* getBookings behind its pagination loop: the defensive date filter
bookingsAfterPages(r) == bookingsFiltered(r, filterByRange(r.all, dateNow))

\* getBookings receives the answer to a page request; at the end of the loop
\* the bookings are filtered by date, and no bookings are answered at once
getBookingsPage(id, ok) ==
    /\ id \in 1 .. Len(sReqs)
    /\ sReqs[id].handler = "bookings" /\ sReqs[id].pc = "page"
    /\ sReqs' = [sReqs EXCEPT ![id] =
          IF morePages(sReqs[id], ok) THEN nextPage(afterPage(sReqs[id], ok))
          ELSE bookingsAfterPages(afterPage(sReqs[id], ok))]
    /\ UNCHANGED <<srvOthers, bookingsCache, AVAIL_RANGE_CACHE, productSettingsCache>>
    /\ UNCHANGED exceptServer

\* bookingsCache.set(cacheKey, {ts: Date.now(), data: events}); res.json(payload)
bookingsAnswer(id, events) ==
    /\ bookingsCache' = Put(bookingsCache, sReqs[id].key, [ts |-> sNow, data |-> events])
    /\ sReqs' = [sReqs EXCEPT ![id].pc = "done", ![id].doneAt = sNow,
                              ![id].response = Response(200, TRUE, events, FALSE)]

\* the product titles and the site timezone have come back: the bookings are
\* mapped to events, stored in bookingsCache and answered
getBookingsMap(id, siteTz) ==
    /\ id \in 1 .. Len(sReqs)
    /\ sReqs[id].handler = "bookings" /\ sReqs[id].pc = "map"
    /\ bookingsAnswer(id, [i \in 1 .. Len(sReqs[id].bookings) |->
                              serverEvent(sReqs[id].bookings[i], siteTz)])
    /\ UNCHANGED <<srvOthers, AVAIL_RANGE_CACHE, productSettingsCache>>
    /\ UNCHANGED exceptServer

\* handleAvailabilityRange from its entry to its first await
handleAvailabilityRange(allowedIds) ==
    /\ Len(sReqs) < MaxReqs
    /\ LET key   == availKey(allowedIds)
           found == IF key \in DOMAIN AVAIL_RANGE_CACHE
                    THEN sNow - AVAIL_RANGE_CACHE[key].ts ELSE -1
       IN  sReqs' = Append(sReqs,
              IF ~sConfig
              THEN Request("availability", key, allowedIds, "done", "none", found,
                           credentialsNotConfigured, sNow)
              ELSE IF /\ key \in DOMAIN AVAIL_RANGE_CACHE
                      /\ isFresh(sNow, AVAIL_RANGE_CACHE[key].ts, AVAIL_TTL)
              THEN Request("availability", key, allowedIds, "done", "cache", found,
                           Response(200, TRUE, AVAIL_RANGE_CACHE[key].data, TRUE), sNow)
              ELSE Request("availability", key, allowedIds, "page", "fetch", found,
                           NoResponse, sNow))
    /\ UNCHANGED <<srvOthers, bookingsCache, AVAIL_RANGE_CACHE, productSettingsCache>>
    /\ UNCHANGED exceptServer

\* res.json({success: true, data: out}), or the catch's status 500
availRespond(r, res) ==
    [r EXCEPT !.pc = "done", !.doneAt = sNow,
              !.response = IF res.status = "error"
                           THEN Response(500, FALSE, <<>>, FALSE)
                           ELSE Response(200, TRUE, res.data, FALSE)]

\* handleAvailabilityRange from the output loop to its response; the catch
\* answers 500 when toISOString throws
availFinish(r) == availRespond(r, serverSlots(r.all, r.allowedIds, r.nameMap, r.totals))

\* AVAIL_RANGE_CACHE.set(cacheKey, {ts: Date.now(), data: out}) of a request
\* that has just built its output
availStore(r) ==
    IF r.pc = "done" /\ r.response.status = 200
    THEN Put(AVAIL_RANGE_CACHE, r.key, [ts |-> sNow, data |-> r.response.data])
    ELSE AVAIL_RANGE_CACHE

\* the request whose getMaxFor calls have all returned builds its output,
\* any other waits for them
afterGetMaxFor(r) ==
    IF r.pending = {} THEN availFinish(r) ELSE [r EXCEPT !.pc = "max"]

\* getMaxFor up to its await for each of the ids: the ids in hit are answered
\* from productSettingsCache, the settings of the others are requested
getMaxMap(r, ids, hit) ==
    afterGetMaxFor(
        [r EXCEPT
           !.totals = [pid \in hit |-> productSettingsCache[pid].maxPerBlock],
           !.hits = { [pid |-> pid, age |-> sNow - productSettingsCache[pid].ts] :
                        pid \in hit },
           !.pending = ids \ hit])

\* c && Date.now() - c.ts < PRODUCT_SETTINGS_TTL, for each of the ids
settingsHits(ids) ==
    { pid \in ids :
        /\ pid \in DOMAIN productSettingsCache
        /\ isFresh(sNow, productSettingsCache[pid].ts, PRODUCT_SETTINGS_TTL) }

\* Array.from(map.values()).map((v) => v.product_id)
groupProductIds(groups) == { groups[i].product_id : i \in 1 .. Len(groups) }

getMaxMapOf(r, ids) == getMaxMap(r, ids, settingsHits(ids))

\* the grouping loop and the start of getMaxMap: every worker calls getMaxFor
groupAndGetMaxMap(r) ==
    getMaxMapOf(r, groupProductIds(serverGroups(r.all, r.allowedIds)))

\* the product ids of the fetched records that pass the product_ids filter
productIdsOf(r) ==
    { r.all[i].product_id : i \in 1 .. Len(r.all) }
        \cap (IF r.allowedIds = {} THEN { r.all[i].product_id : i \in 1 .. Len(r.all) }
              ELSE r.allowedIds)

\* the request at id goes on as r; if r has built its output, the output is
\* stored in AVAIL_RANGE_CACHE
availStep(id, r) ==
    /\ sReqs' = [sReqs EXCEPT ![id] = r]
    /\ AVAIL_RANGE_CACHE' = availStore(r)

\* after a page: the next page, or the products request, or (no product to
\* name) the grouping loop at once
availAfterPage(r, more) ==
    IF more THEN nextPage(r)
    ELSE IF productIdsOf(r) = {} THEN groupAndGetMaxMap(r)
    ELSE [r EXCEPT !.pc = "names"]

\* handleAvailabilityRange receives the answer to a page request
handleAvailabilityRangePage(id, ok) ==
    /\ id \in 1 .. Len(sReqs)
    /\ sReqs[id].handler = "availability" /\ sReqs[id].pc = "page"
    /\ availStep(id, availAfterPage(afterPage(sReqs[id], ok), morePages(sReqs[id], ok)))
    /\ UNCHANGED <<srvOthers, bookingsCache, productSettingsCache>>
    /\ UNCHANGED exceptServer

\* the products request comes back with the names or fails
handleAvailabilityRangeNames(id, ok) ==
    /\ id \in 1 .. Len(sReqs)
    /\ sReqs[id].handler = "availability" /\ sReqs[id].pc = "names"
    /\ availStep(id, groupAndGetMaxMap(
          [sReqs[id] EXCEPT
             !.nameMap = IF ok THEN [pid \in productIdsOf(sReqs[id]) |-> upstreamNames[pid]]
                         ELSE <<>>]))
    /\ UNCHANGED <<srvOthers, bookingsCache, productSettingsCache>>
    /\ UNCHANGED exceptServer

\* getMaxFor's settings request for product pid comes back or fails: either
\* way the value is stored in productSettingsCache; the last one to come
\* back lets the handler build its output
getMaxFor(id, pid, ok) ==
    /\ id \in 1 .. Len(sReqs)
    /\ sReqs[id].handler = "availability" /\ sReqs[id].pc = "max"
    /\ pid \in sReqs[id].pending
    /\ LET v == IF ok THEN upstreamMax[pid] ELSE NULL
       IN  /\ productSettingsCache' =
                 Put(productSettingsCache, pid, [ts |-> sNow, maxPerBlock |-> v])
           /\ availStep(id, afterGetMaxFor(
                 [sReqs[id] EXCEPT !.totals = Put(@, pid, v), !.pending = @ \ {pid},
                                   !.maxAt = Put(@, pid, sNow)]))
    /\ UNCHANGED <<srvOthers, bookingsCache>>
    /\ UNCHANGED exceptServer

\* Date.now() moves on
ServerTick ==
    /\ sTicks < MaxTicks
    /\ sTicks' = sTicks + 1
    /\ \E t \in ClockInstants : t > sNow /\ sNow' = t
    /\ UNCHANGED <<sBoot, sConfig, sUpstream, bookingsCache, AVAIL_RANGE_CACHE,
                   productSettingsCache, sReqs>>
    /\ UNCHANGED exceptServer

ServerNext ==
    \/ getBookings
    \/ \E id \in 1 .. MaxReqs, ok \in BOOLEAN : getBookingsPage(id, ok)
    \/ \E id \in 1 .. MaxReqs, siteTz \in SiteTzs : getBookingsMap(id, siteTz)
    \/ \E allowedIds \in {{}, {1}} : handleAvailabilityRange(allowedIds)
    \/ \E id \in 1 .. MaxReqs, ok \in BOOLEAN : handleAvailabilityRangePage(id, ok)
    \/ \E id \in 1 .. MaxReqs, ok \in BOOLEAN : handleAvailabilityRangeNames(id, ok)
    \/ \E id \in 1 .. MaxReqs, pid \in DOMAIN upstreamMax, ok \in BOOLEAN :
          getMaxFor(id, pid, ok)
    \/ ServerTick
----------------------------------------------------------------------------
(***************************************************************************)
(* Properties of the server handlers                                       *)
(***************************************************************************)
Requests == 1 .. Len(sReqs)

\* the TTL and the cache of a handler
ttlOf(handler) == IF handler = "bookings" THEN BOOKINGS_TTL_MS ELSE AVAIL_TTL

cacheOf(handler) == IF handler = "bookings" THEN bookingsCache ELSE AVAIL_RANGE_CACHE

\* C2: of the requests of one handler with one cache key, at most one has a
\* pagination fetch in progress at any time.
C2_OneFetchPerKey ==
    \A i, j \in Requests :
        ( /\ i # j
          /\ sReqs[i].handler = sReqs[j].handler
          /\ sReqs[i].key = sReqs[j].key
          /\ sReqs[i].pc = "page" ) => sReqs[j].pc # "page"

\* a request whose cached answer or whose productSettingsCache hits were all
\* younger than the TTL, and that went to the upstream when the entry it met
\* had reached the TTL
servedWhileFresh(r) ==
    /\ r.how = "cache" => (r.found >= 0 /\ r.found < ttlOf(r.handler))
    /\ \A h \in r.hits : h.age >= 0 /\ h.age < PRODUCT_SETTINGS_TTL
    /\ (r.how # "none" /\ r.found >= ttlOf(r.handler)) => r.how = "fetch"

\* the settings getMaxFor requested for r are in productSettingsCache, stored
\* when the request came back or later
settingsReplaced(r) ==
    \A pid \in DOMAIN r.maxAt :
        /\ pid \in DOMAIN productSettingsCache
        /\ productSettingsCache[pid].ts >= r.maxAt[pid]

\* the cache entry of r's key has been stored when r responded or later
entryReplaced(r) ==
    /\ r.key \in DOMAIN cacheOf(r.handler)
    /\ cacheOf(r.handler)[r.key].ts >= r.doneAt

\* r has responded after recomputing in place of an entry that had expired
recomputedExpired(r) ==
    r.pc = "done" /\ r.how = "fetch" /\ r.found >= ttlOf(r.handler)

\* C4 as stated: the server caches serve a value only while now - ts is
\* below the TTL, and every request that meets an entry at or after its expiry
\* recomputes from upstream and replaces the entry.
C4_ExpiredEntriesAlwaysReplaced ==
    \A i \in Requests :
        /\ servedWhileFresh(sReqs[i])
        /\ settingsReplaced(sReqs[i])
        /\ recomputedExpired(sReqs[i]) => entryReplaced(sReqs[i])

\* C4, amended: the server caches serve a value only while now - ts is below
\* the TTL; a request at or after expiry recomputes from upstream; getMaxFor
\* always replaces its entry, handleAvailabilityRange replaces its entry when
\* it answers with success, and getBookings replaces its entry when the
\* recomputation yields at least one booking.
C4_ServedOnlyWhileFresh ==
    \A i \in Requests :
        /\ servedWhileFresh(sReqs[i])
        /\ settingsReplaced(sReqs[i])
        /\ ( /\ recomputedExpired(sReqs[i])
             /\ sReqs[i].response.status = 200
             /\ sReqs[i].handler = "bookings" => sReqs[i].response.data # <<>> )
             => entryReplaced(sReqs[i])

\* a request that arrived exactly at the expiry of its key's entry has
\* recomputed from upstream and replaced the entry
C4_Witness ==
    \E i \in Requests :
        /\ recomputedExpired(sReqs[i])
        /\ sReqs[i].found = ttlOf(sReqs[i].handler)
        /\ entryReplaced(sReqs[i])
        /\ sReqs[i].response.data # <<>>

\* the fetched records the request asks for (the product_ids filter) whose
\* start is a date
requested(r) ==
    { k \in 1 .. Len(r.all) :
        /\ r.allowedIds = {} \/ r.all[k].product_id \in r.allowedIds
        /\ IsFin(parseStartEnd(r.all[k].start, HostTz)) }

\* C10: when page 1 of a handler's pagination succeeds and a later page
\* fails, the handler answers with success from exactly the records of the
\* pages before the failure: no error, and no empty list when those pages
\* hold records the request asks for.
C10_PartialPagesAnswered ==
    \A i \in Requests :
        LET r == sReqs[i]
        IN  ( /\ r.pc = "done"
              /\ r.pages >= 1 /\ r.failedPage > 1
              /\ requested(r) # {} )
            => /\ r.all = sUpstream \/ Len(r.all) = r.pages * PerPage
               /\ r.response.status = 200
               /\ r.response.data # <<>>
               /\ r.handler = "bookings" =>
                     { r.response.data[k].id : k \in 1 .. Len(r.response.data) }
                        = { r.all[k].id : k \in requested(r) }
               /\ r.handler = "availability" =>
                     { <<r.response.data[k].product_id, r.response.data[k].start>> :
                         k \in 1 .. Len(r.response.data) }
                        = { <<r.all[k].product_id, parseStartEnd(r.all[k].start, HostTz)>> :
                              k \in requested(r) }
----------------------------------------------------------------------------
(***************************************************************************)
(* SpecMaxMap: the workers of getMaxMap, each running from one await to    *)
(* the next, with the answers to getMaxFor arriving in any order           *)
(***************************************************************************)

\* the distinct product ids of a request are at most MaxIds
MaxIds == 7

\* Math.min(6, ...): the ceiling of the pool
MAX_WORKERS == 6

\* the ids handed to getMaxMap: the products 1..n, and lists that repeat ids
IdLists ==
    { [i \in 1 .. n |-> i] : n \in 0 .. MaxIds }
       \cup { <<1, 1>>, <<2, 1, 2>>, <<3, 3, 1, 3, 2>> }

RECURSIVE uniqueOf(_)
\* Array.from(new Set(ids)): the first occurrence of each id, in order
uniqueOf(ids) ==
    IF ids = <<>> THEN <<>>
    ELSE LET front == uniqueOf(SubSeq(ids, 1, Len(ids) - 1))
             last  == ids[Len(ids)]
         IN  IF \E i \in 1 .. Len(front) : front[i] = last THEN front
             ELSE Append(front, last)

\* Math.min(6, unique.length || 1)
concurrency(unique) ==
    LET n == IF Len(unique) = 0 THEN 1 ELSE Len(unique)
    IN  IF n < MAX_WORKERS THEN n ELSE MAX_WORKERS

\* a worker at the start of its function, at its await of getMaxFor(id), or
\* past its loop
Worker(pc, id) == [pc |-> pc, id |-> id]

\* what getMaxFor resolves for a product: its capacity, or null when the
\* settings request fails or holds none
maxOf(id, ok) == IF ok THEN Big(0, 10 + id) ELSE NULL

\* res.set(id, v)
resSet(res, id, v) == Put(res, id, v)

MaxMapIdle ==
    /\ mIds = <<>>
    /\ mIndex = 0
    /\ mWorkers = <<>>
    /\ mRes = <<>>
    /\ mCalled = <<>>
    /\ mPc = "idle"

\* getMaxMap(ids) up to Promise.all: unique, res, index and the workers made
MaxMapInit ==
    /\ mIds \in IdLists
    /\ mIndex = 0
    /\ mWorkers = [w \in 1 .. concurrency(uniqueOf(mIds)) |-> Worker("start", 0)]
    /\ mRes = <<>>
    /\ mCalled = [id \in { mIds[i] : i \in 1 .. Len(mIds) } |-> 0]
    /\ mPc = "running"

\* the loop with the index read before the await and incremented after it:
\* const id = unique[index]; const v = await getMaxFor(id); index++
WorkerLoop_LateIncrement(w) ==
    LET unique == uniqueOf(mIds)
        index  == IF mWorkers[w].pc = "await" THEN mIndex + 1 ELSE mIndex
    IN  IF index < Len(unique)
        THEN /\ mIndex' = index
             /\ mWorkers' = [mWorkers EXCEPT ![w] = Worker("await", unique[index + 1])]
             /\ mCalled' = [mCalled EXCEPT ![unique[index + 1]] = @ + 1]
        ELSE /\ mIndex' = index
             /\ mWorkers' = [mWorkers EXCEPT ![w] = Worker("done", 0)]
             /\ UNCHANGED mCalled

\* worker w from the test of its while loop to its next await or to its end:
\* while (index < unique.length) { const i = index++; const id = unique[i];
\* ... await getMaxFor(id)
WorkerLoop(w) ==
    LET unique == uniqueOf(mIds)
    IN  IF mIndex < Len(unique)
        THEN /\ mIndex' = mIndex + 1
             /\ mWorkers' = [mWorkers EXCEPT ![w] = Worker("await", unique[mIndex + 1])]
             /\ mCalled' = [mCalled EXCEPT ![unique[mIndex + 1]] = @ + 1]
        ELSE /\ mWorkers' = [mWorkers EXCEPT ![w] = Worker("done", 0)]
             /\ UNCHANGED <<mIndex, mCalled>>

\* Array.from({length: concurrency}).map(async () => ...): the workers are
\* started one after the other, each running to its first await
WorkerStarts(w) ==
    /\ mPc = "running"
    /\ w \in 1 .. Len(mWorkers)
    /\ mWorkers[w].pc = "start"
    /\ \A u \in 1 .. w - 1 : mWorkers[u].pc # "start"
    /\ WorkerLoop(w)
    /\ UNCHANGED <<mIds, mRes, mPc>>
    /\ UNCHANGED exceptMaxMap

\* getMaxFor resolves for worker w, after map has started every worker:
\* res.set(id, v), and the loop goes on
WorkerResumes(w, ok) ==
    /\ mPc = "running"
    /\ w \in 1 .. Len(mWorkers)
    /\ \A u \in 1 .. Len(mWorkers) : mWorkers[u].pc # "start"
    /\ mWorkers[w].pc = "await"
    /\ mRes' = resSet(mRes, mWorkers[w].id, maxOf(mWorkers[w].id, ok))
    /\ WorkerLoop(w)
    /\ UNCHANGED <<mIds, mPc>>
    /\ UNCHANGED exceptMaxMap

\* Promise.all resolves once every worker has ended: return res
getMaxMapReturns ==
    /\ mPc = "running"
    /\ \A w \in 1 .. Len(mWorkers) : mWorkers[w].pc = "done"
    /\ mPc' = "returned"
    /\ UNCHANGED <<mIds, mIndex, mWorkers, mRes, mCalled>>
    /\ UNCHANGED exceptMaxMap

MaxMapNext ==
    \/ \E w \in 1 .. MAX_WORKERS : WorkerStarts(w)
    \/ \E w \in 1 .. MAX_WORKERS, ok \in BOOLEAN : WorkerResumes(w, ok)
    \/ getMaxMapReturns

----------------------------------------------------------------------------
(***************************************************************************)
(* SpecFilter: the instructor filter of BookingCalendar, as loadMonth and  *)
(* as refreshBookings apply it to the month's events                       *)
(***************************************************************************)

\* an event of the calendar or of the assigned list: wooCommerceData.bookingId
\* and .productId (0: missing) and the start as epoch milliseconds
CalendarEvent(bookingId, productId, start) ==
    [bookingId |-> bookingId, productId |-> productId, start |-> start]

\* Math.abs(astart.getTime() - estart.getTime()) <= limit; false when a start
\* is an Invalid Date
diffWithin(astart, estart, limit) ==
    /\ IsFin(astart) /\ IsFin(estart)
    /\ NumGe(limit, NumSub(astart, estart))
    /\ NumGe(limit, NumSub(estart, astart))

\* direct bookingId match: bid && abid && bid === abid
matchBookingId(e, a) ==
    e.bookingId # 0 /\ a.bookingId # 0 /\ e.bookingId = a.bookingId

\* strict product + time proximity: same product and diff <= 6 * 60 * 60 * 1000
matchProductSixHours(e, a) ==
    /\ e.productId # 0 /\ a.productId # 0 /\ e.productId = a.productId
    /\ diffWithin(a.start, e.start, Big(21, 600000))

\* same product + same local calendar day: pid === apid && aDay === eDay
matchProductSameDay(e, a) ==
    /\ e.productId # 0 /\ a.productId # 0 /\ e.productId = a.productId
    /\ dateKey(a.start) = dateKey(e.start)

\* time-only proximity: diff <= 90 * 60 * 1000
matchNinetyMinutes(e, a) == diffWithin(a.start, e.start, Big(5, 400000))

\* the callback loadMonth filters allEvents with: the first pass that finds
\* a match among the assigned returns true
loadMonthTier(e, assigned) ==
    CASE \E a \in assigned : matchBookingId(e, a) -> 1
      [] \E a \in assigned : matchProductSixHours(e, a) -> 2
      [] \E a \in assigned : matchProductSameDay(e, a) -> 3
      [] \E a \in assigned : matchNinetyMinutes(e, a) -> 4
      [] OTHER -> 0

\* the callback refreshBookings filters allEvents with: its first pass is the
\* product + six hours one
refreshBookingsTier(e, assigned) ==
    CASE \E a \in assigned : matchProductSixHours(e, a) -> 2
      [] \E a \in assigned : matchProductSameDay(e, a) -> 3
      [] \E a \in assigned : matchNinetyMinutes(e, a) -> 4
      [] OTHER -> 0

\* 2024-06-15T10:00:00Z (06:00 in the browser's zone) and instants after it
FilterStart(hours) == NumAdd(NumMul(SlotSec, 1000), Big(0, hours * 3600000))

EventPool ==
    { CalendarEvent(5, 1, FilterStart(0)),
      CalendarEvent(6, 2, FilterStart(0)),
      CalendarEvent(0, 1, FilterStart(1)) }

\* assigned entries that share only the identifier with event 5, that are
\* near it in time, on its day, of no product, and one without a start
AssignedPool ==
    { CalendarEvent(5, 1, FilterStart(48)),
      CalendarEvent(5, 1, FilterStart(0)),
      CalendarEvent(9, 1, FilterStart(5)),
      CalendarEvent(9, 2, FilterStart(12)),
      CalendarEvent(9, 0, FilterStart(1)),
      CalendarEvent(6, 0, NaN) }

FilterIdle ==
    /\ fEvents = {}
    /\ fAssigned = {}
    /\ fShown = <<>>
    /\ fPc = "idle"

FilterInit ==
    /\ fEvents \in SUBSET EventPool
    /\ fAssigned \in SUBSET AssignedPool
    /\ fShown = <<>>
    /\ fPc = "ready"

\* loadMonth in the booked view of an instructor page
loadMonth ==
    /\ fPc # "idle"
    /\ fShown' = [e \in fEvents |-> loadMonthTier(e, fAssigned)]
    /\ fPc' = "loaded"
    /\ UNCHANGED <<fEvents, fAssigned>>
    /\ UNCHANGED exceptFilter

\* refreshBookings in the booked view of an instructor page
refreshBookings ==
    /\ fPc # "idle"
    /\ fShown' = [e \in fEvents |-> refreshBookingsTier(e, fAssigned)]
    /\ fPc' = "refreshed"
    /\ UNCHANGED <<fEvents, fAssigned>>
    /\ UNCHANGED exceptFilter

FilterNext == loadMonth \/ refreshBookings

----------------------------------------------------------------------------
(***************************************************************************)
(* Properties of the instructor filter                                     *)
(***************************************************************************)

\* a and e start on the same calendar day of the browser's zone
sameLocalDay(a, e) ==
    /\ IsFin(a.start) /\ IsFin(e.start)
    /\ FormatToParts(a.start, BrowserTz).y = FormatToParts(e.start, BrowserTz).y
    /\ FormatToParts(a.start, BrowserTz).mo = FormatToParts(e.start, BrowserTz).mo
    /\ FormatToParts(a.start, BrowserTz).d = FormatToParts(e.start, BrowserTz).d

\* the first tier, in the order exact identifier, product + 6h, product +
\* same day, time-only 90 min, that has a match for e, 0 when none has
firstTier(e) ==
    CASE \E a \in fAssigned : e.bookingId # 0 /\ a.bookingId = e.bookingId -> 1
      [] \E a \in fAssigned :
            /\ e.productId # 0 /\ a.productId = e.productId
            /\ IsFin(a.start) /\ Within(a.start, e.start, Big(21, 600000)) -> 2
      [] \E a \in fAssigned :
            /\ e.productId # 0 /\ a.productId = e.productId
            /\ sameLocalDay(a, e) -> 3
      [] \E a \in fAssigned :
            IsFin(a.start) /\ Within(a.start, e.start, Big(5, 400000)) -> 4
      [] OTHER -> 0

\* C12: in both paths that apply the filter, a booking with an exact
\* identifier match is accepted by the exact-identifier tier, and every
\* booking is resolved by the first tier in the order that matches it
C12_ExactTierFirstInEveryPath ==
    fPc \in {"loaded", "refreshed"} =>
       \A e \in fEvents : fShown[e] = firstTier(e)

----------------------------------------------------------------------------
(***************************************************************************)
(* SpecTz: server/config/siteTz, calls of getSiteTz interleaved with the   *)
(* hourly timer and with a change of the timezone upstream                 *)
(***************************************************************************)

\* the calls of getSiteTz a behaviour makes
MaxTzCalls == 2

\* the period of the setInterval timer (60 * 60 * 1000 ms) in ticks
HourTicks == 3

\* AbortSignal.timeout(4000): a request is answered or aborted before this
\* many ticks have passed, which is less than the timer's period
FetchTicks == HourTicks - 1

MaxTzClock == 2 * HourTicks

\* SITE_TZ = null
NoTz == "null"

\* the timezone the business system is set to after ver changes
upstreamTz(ver) == IF ver = 0 THEN "Europe/Berlin" ELSE "Asia/Tokyo"

\* process.env: "" is an unset variable; store is the WOOCOMMERCE_STORE_URL,
\* keys the consumer key and secret
Env(force, wpBase, wpUrl, store, keys, default) ==
    [FORCE_SITE_TZ |-> force, WP_BASE_URL |-> wpBase, WP_URL |-> wpUrl,
     WOOCOMMERCE_STORE_URL |-> store, keys |-> keys, DEFAULT_SITE_TZ |-> default]

EnvPool ==
    { Env(force, b[1], b[2], b[3], b[4], default) :
        force \in {"", "Pacific/Auckland"},
        default \in {"", "Europe/London"},
        b \in { <<FALSE, FALSE, FALSE, FALSE>>, <<TRUE, FALSE, FALSE, FALSE>>,
                <<FALSE, FALSE, TRUE, TRUE>>, <<TRUE, FALSE, TRUE, TRUE>>,
                <<FALSE, TRUE, TRUE, FALSE>> } }

\* a request getSiteTz makes: the endpoint and the variable its base is from
Attempt(endpoint, base) == [endpoint |-> endpoint, base |-> base]

\* LAST_SOURCE: null, the URL of a request, or one of the fixed names
NoSource == Attempt("null", "")

SourceName(name) == Attempt(name, "")

\* the bases of list that are configured, in the order of the list
configured(env, list) == SelectSeq(list, LAMBDA b : env[b])

\* the requests of getSiteTz in the order of its code: the site-tz endpoint for
\* each base, system_status when URL and keys are there, then the settings
requestsOf_SettingsFirst(env) ==
    [i \in 1 .. Len(configured(env, <<"WP_BASE_URL", "WP_URL">>)) |->
        Attempt("settings", configured(env, <<"WP_BASE_URL", "WP_URL">>)[i])]
    \o (IF env.WOOCOMMERCE_STORE_URL /\ env.keys
        THEN <<Attempt("system_status", "WOOCOMMERCE_STORE_URL")>> ELSE <<>>)
    \o [i \in 1 .. Len(configured(env, <<"WP_BASE_URL", "WP_URL", "WOOCOMMERCE_STORE_URL">>)) |->
        Attempt("site-tz",
                configured(env, <<"WP_BASE_URL", "WP_URL", "WOOCOMMERCE_STORE_URL">>)[i])]

requestsOf(env) ==
    [i \in 1 .. Len(configured(env, <<"WP_BASE_URL", "WP_URL", "WOOCOMMERCE_STORE_URL">>)) |->
        Attempt("site-tz",
                configured(env, <<"WP_BASE_URL", "WP_URL", "WOOCOMMERCE_STORE_URL">>)[i])]
    \o (IF env.WOOCOMMERCE_STORE_URL /\ env.keys
        THEN <<Attempt("system_status", "WOOCOMMERCE_STORE_URL")>> ELSE <<>>)
    \o [i \in 1 .. Len(configured(env, <<"WP_BASE_URL", "WP_URL">>)) |->
        Attempt("settings", configured(env, <<"WP_BASE_URL", "WP_URL">>)[i])]

\* what tryFetchJson hands back: null (network error, timeout, non-2xx,
\* invalid JSON), or the JSON, of which only the timezone field counts: absent,
\* "", a timezone name, or an empty array
Json(kind, tz) == [kind |-> kind, tz |-> tz]

JsonKinds == {"null", "absent", "empty", "name", "array"}

\* if (j?.timezone): the field is there and truthy
truthyTimezone(j) == j.kind \in {"name", "array"}

\* String(j.timezone)
StringOf(j) == IF j.kind = "name" THEN j.tz ELSE ""

\* if (SITE_TZ): neither null nor ""
truthy(str) == str # NoTz /\ str # ""

\* a call of getSiteTz: at the await of request pc (0: returned), with the
\* sources it has consulted so far
TzCall(pc, how, startedAt, log, result, source) ==
    [pc |-> pc, how |-> how, startedAt |-> startedAt, sentAt |-> startedAt,
     sentVer |-> zVer, log |-> log, result |-> result, source |-> source]

\* an entry of a call's log: the source consulted and whether it gave a value
Consulted(endpoint, base, yielded, value) ==
    [endpoint |-> endpoint, base |-> base, yielded |-> yielded, value |-> value]

TzIdle ==
    /\ zEnv = Env("", FALSE, FALSE, FALSE, FALSE, "")
    /\ zNow = 0
    /\ zVer = 0
    /\ zChangedAt = -1
    /\ SITE_TZ = NoTz
    /\ LAST_SOURCE = NoSource
    /\ zCalls = <<>>

TzInit ==
    /\ zEnv \in EnvPool
    /\ zNow = 0
    /\ zVer = 0
    /\ zChangedAt = -1
    /\ SITE_TZ = NoTz
    /\ LAST_SOURCE = NoSource
    /\ zCalls = <<>>

\* 4) SITE_TZ = process.env.DEFAULT_SITE_TZ || "America/New_York"
defaultTz(env) ==
    IF env.DEFAULT_SITE_TZ # "" THEN env.DEFAULT_SITE_TZ ELSE "America/New_York"

\* LAST_SOURCE of the final fallback
defaultSource(env) ==
    IF defaultTz(env) = "America/New_York" THEN SourceName("fallback:hardcoded")
    ELSE SourceName("env:DEFAULT_SITE_TZ")

\* the call c has no request left: the final fallback is assigned and returned
fallBack(c) ==
    [c EXCEPT !.pc = 0, !.result = defaultTz(zEnv), !.source = defaultSource(zEnv),
              !.log = Append(@, Consulted("default", "", TRUE, defaultTz(zEnv)))]

\* getSiteTz up to its first await: the override, the cached value, the first
\* request, or the final fallback when nothing is configured
getSiteTz ==
    /\ Len(zCalls) < MaxTzCalls
    /\ IF zEnv.FORCE_SITE_TZ # ""
       THEN /\ SITE_TZ' = zEnv.FORCE_SITE_TZ
            /\ LAST_SOURCE' = SourceName("env:FORCE_SITE_TZ")
            /\ zCalls' = Append(zCalls,
                  TzCall(0, "force", zNow, <<Consulted("force", "", TRUE, zEnv.FORCE_SITE_TZ)>>,
                         zEnv.FORCE_SITE_TZ, SourceName("env:FORCE_SITE_TZ")))
       ELSE IF truthy(SITE_TZ)
       THEN /\ zCalls' = Append(zCalls,
                  TzCall(0, "cache", zNow, <<>>, SITE_TZ, LAST_SOURCE))
            /\ UNCHANGED <<SITE_TZ, LAST_SOURCE>>
       ELSE IF requestsOf(zEnv) = <<>>
       THEN /\ SITE_TZ' = defaultTz(zEnv)
            /\ LAST_SOURCE' = defaultSource(zEnv)
            /\ zCalls' = Append(zCalls,
                  fallBack(TzCall(1, "discovery", zNow, <<>>, NoTz, NoSource)))
       ELSE /\ zCalls' = Append(zCalls,
                  TzCall(1, "discovery", zNow, <<>>, NoTz, NoSource))
            /\ UNCHANGED <<SITE_TZ, LAST_SOURCE>>
    /\ UNCHANGED <<zEnv, zNow, zVer, zChangedAt>>
    /\ UNCHANGED exceptTz

\* the call after the answer j to its request: returned with the value, at
\* the next request, or returned with the final fallback
afterAnswer(c, j) ==
    LET req == requestsOf(zEnv)[c.pc]
    IN  IF truthyTimezone(j)
        THEN [c EXCEPT !.pc = 0, !.result = StringOf(j), !.source = req,
                       !.log = Append(@, Consulted(req.endpoint, req.base, TRUE, StringOf(j)))]
        ELSE IF c.pc < Len(requestsOf(zEnv))
        THEN [c EXCEPT !.pc = @ + 1, !.sentAt = zNow, !.sentVer = zVer,
                       !.log = Append(@, Consulted(req.endpoint, req.base, FALSE, ""))]
        ELSE fallBack([c EXCEPT !.log = Append(@, Consulted(req.endpoint, req.base, FALSE, ""))])

\* SITE_TZ and LAST_SOURCE as the call leaves them
assigned(c) ==
    IF c.pc = 0 THEN <<c.result, c.source>> ELSE <<SITE_TZ, LAST_SOURCE>>

\* the request the call id awaits is answered: tryFetchJson returns null or
\* the JSON, which holds the timezone upstream had when it answered
tryFetchJson(id, kind, ver) ==
    /\ id \in 1 .. Len(zCalls)
    /\ zCalls[id].pc # 0
    /\ ver \in zCalls[id].sentVer .. zVer
    /\ LET c == afterAnswer(zCalls[id], Json(kind, upstreamTz(ver)))
       IN  /\ zCalls' = [zCalls EXCEPT ![id] = c]
           /\ SITE_TZ' = assigned(c)[1]
           /\ LAST_SOURCE' = assigned(c)[2]
    /\ UNCHANGED <<zEnv, zNow, zVer, zChangedAt>>
    /\ UNCHANGED exceptTz

\* a tick of time; setInterval(() => { SITE_TZ = null }, 60 * 60 * 1000)
\* fires when a period is over.  A request that is out is answered or aborted
\* before FetchTicks ticks have passed
TzTick ==
    /\ zNow < MaxTzClock
    /\ \A id \in 1 .. Len(zCalls) :
          zCalls[id].pc # 0 => zNow + 1 - zCalls[id].sentAt < FetchTicks + 1
    /\ zNow' = zNow + 1
    /\ SITE_TZ' = IF (zNow + 1) % HourTicks = 0 THEN NoTz ELSE SITE_TZ
    /\ UNCHANGED <<zEnv, zVer, zChangedAt, LAST_SOURCE, zCalls>>
    /\ UNCHANGED exceptTz

\* an operator changes the timezone of the business system
UpstreamTzChanges ==
    /\ zVer = 0
    /\ zVer' = 1
    /\ zChangedAt' = zNow
    /\ UNCHANGED <<zEnv, zNow, SITE_TZ, LAST_SOURCE, zCalls>>
    /\ UNCHANGED exceptTz

\* the timer fires, at any time between the steps of the calls
setInterval ==
    /\ SITE_TZ' = NoTz
    /\ UNCHANGED <<zEnv, zNow, zVer, zChangedAt, LAST_SOURCE, zCalls>>
    /\ UNCHANGED exceptTz

\* SpecTz: the calls under every interleaving with the timer, without a clock
TzNext ==
    \/ getSiteTz
    \/ \E id \in 1 .. MaxTzCalls, kind \in JsonKinds, ver \in 0 .. 1 :
          tryFetchJson(id, kind, ver)
    \/ setInterval
    \/ UpstreamTzChanges

\* SpecTzClock: the same calls on a time line, the timer firing each period,
\* in a process with one base URL configured
TzClockInit ==
    /\ TzInit
    /\ zEnv \in { Env("", TRUE, FALSE, FALSE, FALSE, ""),
                  Env("", FALSE, FALSE, TRUE, TRUE, "Europe/London") }

TzClockNext ==
    \/ getSiteTz
    \/ \E id \in 1 .. MaxTzCalls, kind \in JsonKinds, ver \in 0 .. 1 :
          tryFetchJson(id, kind, ver)
    \/ TzTick
    \/ UpstreamTzChanges

----------------------------------------------------------------------------
(***************************************************************************)
(* Properties of getSiteTz                                                 *)
(***************************************************************************)

\* the place of a source in the order override, site-tz plugin endpoint,
\* system_status, general settings, default
sourceRank(endpoint) ==
    CASE endpoint = "force" -> 1
      [] endpoint = "site-tz" -> 2
      [] endpoint = "system_status" -> 3
      [] endpoint = "settings" -> 4
      [] OTHER -> 5

\* the sources the process is configured for, the default being always there
available(endpoint, base) ==
    CASE endpoint = "site-tz" ->
            base \in {"WP_BASE_URL", "WP_URL", "WOOCOMMERCE_STORE_URL"} /\ zEnv[base]
      [] endpoint = "system_status" ->
            base = "WOOCOMMERCE_STORE_URL" /\ zEnv.WOOCOMMERCE_STORE_URL /\ zEnv.keys
      [] endpoint = "settings" -> base \in {"WP_BASE_URL", "WP_URL"} /\ zEnv[base]
      [] OTHER -> FALSE

\* the recorded source names the log entry
namedBy(source, entry) ==
    CASE entry.endpoint = "force" -> source = SourceName("env:FORCE_SITE_TZ")
      [] entry.endpoint = "default" ->
            source \in {SourceName("fallback:hardcoded"), SourceName("env:DEFAULT_SITE_TZ")}
      [] OTHER -> source = Attempt(entry.endpoint, entry.base)

\* the sources a call consulted are in the fixed order, none that comes
\* earlier in the order was left out, and none was consulted after one
\* that yielded
consultedInOrder(c) ==
    /\ \A i, j \in 1 .. Len(c.log) :
          i < j => /\ sourceRank(c.log[i].endpoint) <= sourceRank(c.log[j].endpoint)
                   /\ ~c.log[i].yielded
    /\ \A i \in 1 .. Len(c.log) :
          \A endpoint \in {"site-tz", "system_status", "settings"},
             base \in {"WP_BASE_URL", "WP_URL", "WOOCOMMERCE_STORE_URL"} :
             /\ available(endpoint, base)
             /\ sourceRank(endpoint) < sourceRank(c.log[i].endpoint)
             => \E k \in 1 .. i - 1 :
                   c.log[k].endpoint = endpoint /\ c.log[k].base = base

C14_AlwaysNonEmptyTimezone ==
    \A id \in 1 .. Len(zCalls) :
       zCalls[id].pc = 0 => zCalls[id].result # "" /\ zCalls[id].result # NoTz

\* C15: a call that starts more than one period of the timer after the
\* timezone was changed upstream, and that returns a timezone of the
\* business system, returns the new one
C15_ChangePickedUpAfterOnePeriod ==
    \A id \in 1 .. Len(zCalls) :
       /\ zCalls[id].pc = 0
       /\ zChangedAt >= 0
       /\ zCalls[id].startedAt > zChangedAt + HourTicks
       /\ zCalls[id].result \in {upstreamTz(0), upstreamTz(1)}
       => zCalls[id].result = upstreamTz(zVer)

----------------------------------------------------------------------------
(***************************************************************************)
(* Properties of the handlers without a configuration                      *)
(***************************************************************************)

\* C16: a read that finds no configuration answers with status 200, success,
\* an empty result and the unavailable flag, in getBookings and in
\* handleAvailabilityRange
C16_UnconfiguredReadsAnswerUnavailable ==
    \A i \in 1 .. Len(sReqs) :
       sReqs[i].how = "none" =>
          /\ sReqs[i].response.status = 200
          /\ sReqs[i].response.success
          /\ sReqs[i].response.data = <<>>
          /\ sReqs[i].response.unavailable

----------------------------------------------------------------------------
(***************************************************************************)
(* Properties of the service's entry points under upstream failures        *)
(***************************************************************************)

\* the results an entry point may resolve to: slots of the server or of the
\* bookings, events, or their empty forms
WellFormed ==
    { Data(src, ver) : src \in {"server", "bookings", "assigned"}, ver \in -1 .. MaxVer }

\* C17: no call of getAvailabilityBlocks, getCalendarBookings or
\* getInstructorAssignedBookings is ever rejected, whatever the requests
\* meet; a call that has settled resolved to a well-formed result
C17_EntryPointsNeverReject ==
    \A c \in 1 .. Len(cCalls) :
       /\ cCalls[c].state # "rejected"
       /\ cCalls[c].state = "resolved" => cCalls[c].result \in WellFormed

\* a getAvailabilityBlocks call resolved to the empty result after its server
\* request and its bookings request both failed, next to a
\* getInstructorAssignedBookings call resolved to []
C17_Witness ==
    \E c, d \in 1 .. Len(cCalls) :
       /\ cCalls[c].fn = "availability" /\ cCalls[c].how = "load"
       /\ cCalls[c].state = "resolved"
       /\ cCalls[c].result = Data("bookings", -1)
       /\ cLoads[cCalls[c].load].serverRequests = 1
       /\ cLoads[cCalls[c].load].bookingsRequests = 1
       /\ cCalls[d].fn = "assigned" /\ cCalls[d].state = "resolved"
       /\ cCalls[d].result = Data("assigned", -1)

----------------------------------------------------------------------------
(***************************************************************************)
(* Properties of the aggregators on records without a usable start         *)
(***************************************************************************)

\* the instants the start of a record stands for, none when it cannot be
\* parsed
parsedStarts(b) ==
    { ms \in {parseStartEnd(b.start, HostTz), toUtcMs(b.start, BrowserTz)} : IsFin(ms) }

\* a group or slot (of product pid, starting at start) is the group of a
\* record of recs whose start can be parsed
ofParsedRecord(recs, pid, start) ==
    \E i \in 1 .. Len(recs) :
       recs[i].product_id = pid /\ start \in parsedStarts(recs[i])

\* C18: a record whose start cannot be parsed is in no group and yields no
\* slot: every group of the server's grouping loop, every slot of its answer
\* and every slot of the client's fallback belongs to a record whose start
\* was parsed, and starts at that instant
C18_UnparseableStartsExcluded ==
    /\ aPc \in {"served", "built"} =>
          \A k \in 1 .. 2 :
             /\ \A i \in 1 .. Len(aServer[k].map) :
                   ofParsedRecord(inputOf(k), aServer[k].map[i].product_id,
                                  aServer[k].map[i].start)
             /\ \A i \in 1 .. Len(aServer[k].data) :
                   ofParsedRecord(inputOf(k), aServer[k].data[i].product_id,
                                  aServer[k].data[i].start)
    /\ aPc = "fallback" =>
          \A k \in 1 .. 2 : \A day \in DOMAIN aFallback[k] :
             \A j \in 1 .. Len(aFallback[k][day]) :
                ofParsedRecord(inputOf(k), aFallback[k][day][j].productId,
                               aFallback[k][day][j].start)

\* the records of recs that pass the product filter and whose start the
\* server's grouping loop can parse
validRecords(recs) ==
    { i \in 1 .. Len(recs) :
         /\ aAllowed = {} \/ recs[i].product_id \in aAllowed
         /\ IsFin(parseStartEnd(recs[i].start, HostTz)) }

\* C19: whatever the fetched records hold (a start or an end that is no date,
\* person_counts that is no number), handleAvailabilityRange answers with
\* success, and its data holds the slot of every valid record
C19_AggregationNeverThrows ==
    aPc \in {"served", "built"} =>
       \A k \in 1 .. 2 :
          /\ aServer[k].status = "ok"
          /\ \A i \in validRecords(inputOf(k)) :
                \E j \in 1 .. Len(aServer[k].data) :
                   /\ aServer[k].data[j].product_id = inputOf(k)[i].product_id
                   /\ aServer[k].data[j].start =
                         parseStartEnd(inputOf(k)[i].start, HostTz)

----------------------------------------------------------------------------
(***************************************************************************)
(* Properties of getBookings on records without a usable start             *)
(***************************************************************************)

\* the start of the record is no number and no date string
unknownStart(b) == ~IsFin(parseStartEnd(b.start, HostTz))

\* C20: getBookings gives a record whose start cannot be parsed no instant:
\* its date filter does not keep the record, and no event of the answer
\* stands for such a record with a start that is an instant
C20_UnparseableStartNeverDefaulted ==
    \A i \in Requests :
       sReqs[i].handler = "bookings" =>
          /\ \A k \in 1 .. Len(sReqs[i].bookings) : ~unknownStart(sReqs[i].bookings[k])
          /\ \A k \in 1 .. Len(sReqs[i].response.data) :
                \A j \in 1 .. Len(sUpstream) :
                   ( /\ sUpstream[j].id = sReqs[i].response.data[k].id
                     /\ unknownStart(sUpstream[j]) )
                   => ~IsFin(sReqs[i].response.data[k].start)

----------------------------------------------------------------------------
(***************************************************************************)
(* Properties of the start instant of a group                              *)
(***************************************************************************)

\* C21: the group handleAvailabilityRange puts a record into starts at
\* toUtcMs(record.start, siteTz), whether the raw start is a number, an
\* all-digit string, a string with an offset or a naive local string
C21_GroupStartIsNormalizedStart ==
    tPc = "grouped" =>
       /\ Len(tGroups) = 1
       /\ tGroups[1].start = toUtcMs(tInput, tTz)

----------------------------------------------------------------------------
(***************************************************************************)
(* Properties of the pagination loops                                      *)
(***************************************************************************)

RECURSIVE pagesInOrder(_)
\* the first n pages of the upstream's answer, one after the other
pagesInOrder(n) ==
    IF n = 0 THEN <<>> ELSE pagesInOrder(n - 1) \o PageOf(sUpstream, n)

\* C22: a paginated fetch of getBookings or handleAvailabilityRange sends at
\* most MAX_PAGES page requests, for the pages 1, 2, 3, ... in this order,
\* sends none after a page that came back with fewer than PerPage records,
\* and ends with the received pages concatenated in page order, at most
\* MAX_PAGES * PerPage records
C22_PaginationBounded ==
    \A i \in Requests :
       LET r == sReqs[i]
       IN  /\ Len(r.asked) <= MAX_PAGES
           /\ \A k \in 1 .. Len(r.asked) : r.asked[k] = k
           /\ \A k \in 1 .. Len(r.asked) - 1 : Len(PageOf(sUpstream, k)) = PerPage
           /\ r.pages \in {Len(r.asked), Len(r.asked) - 1}
           /\ r.pc # "page" =>
                 /\ r.all = pagesInOrder(r.pages)
                 /\ Len(r.all) <= MAX_PAGES * PerPage

\* both handlers have stopped at the ceiling with the upstream holding more
C22_Witness ==
    \E i, j \in Requests :
       /\ sReqs[i].handler = "bookings" /\ sReqs[j].handler = "availability"
       /\ \A k \in {i, j} :
             /\ sReqs[k].pc # "page"
             /\ Len(sReqs[k].asked) = MAX_PAGES
             /\ Len(sReqs[k].all) = MAX_PAGES * PerPage
             /\ Len(sUpstream) > Len(sReqs[k].all)

----------------------------------------------------------------------------
(***************************************************************************)
(* Properties of the service when the server stops answering               *)
(***************************************************************************)

\* the keys getAvailabilityBlocks can compute
AvailabilityKeys == { availabilityKey(params) : params \in AvailParams }

\* C23 for the client: every call of getAvailabilityBlocks (and of
\* getCalendarBookings) that is waiting eventually settles, and every key
\* that is in availabilityInflight eventually leaves it, also when the other
\* side never answers
C23_NoCallHangs ==
    /\ \A c \in 1 .. MaxCalls :
          (Len(cCalls) >= c /\ cCalls[c].state = "pending")
             ~> (Len(cCalls) >= c /\ cCalls[c].state # "pending")
    /\ \A key \in AvailabilityKeys :
          (key \in DOMAIN availabilityInflight)
             ~> (key \notin DOMAIN availabilityInflight)

\* C24: the time-only tier accepts a booking only through an assigned entry
\* near it in time for which no product match is available, the booking or
\* the entry carrying no product identifier; an entry of another product and
\* another booking never admits the booking by time proximity alone
C24_TimeOnlyTierOnlyWithoutProduct ==
    fPc \in {"loaded", "refreshed"} =>
       \A e \in fEvents :
          fShown[e] = 4 =>
             \E a \in fAssigned :
                /\ IsFin(a.start) /\ Within(a.start, e.start, Big(5, 400000))
                /\ e.productId = 0 \/ a.productId = 0

\* the bookings a filter keeps, given the tier that accepted each
kept(shown) == { e \in DOMAIN shown : shown[e] # 0 }

\* C26: the month-load filter and the refresh filter keep exactly the same
\* bookings of the same list, for the same assigned list
C26_MonthLoadAndRefreshKeepTheSame ==
    /\ fPc = "loaded" =>
          kept(fShown) = kept([e \in fEvents |-> refreshBookingsTier(e, fAssigned)])
    /\ fPc = "refreshed" =>
          kept(fShown) = kept([e \in fEvents |-> loadMonthTier(e, fAssigned)])

\* the whole number a count stands for; an entry that is no number counts 0
countValue(x) == IF IsFin(x) THEN x.hi * Base + x.lo ELSE 0

RECURSIVE sumOfCounts(_)
sumOfCounts(items) ==
    IF items = <<>> THEN 0 ELSE countValue(Head(items)) + sumOfCounts(Tail(items))

\* the counts person_counts carries: the number itself, the entries of an
\* array or of an object, nothing for an absent or otherwise-typed value
countsGiven(pc) ==
    CASE pc.k = "number" -> countValue(pc.n)
      [] pc.k \in {"array", "object"} -> sumOfCounts(pc.items)
      [] OTHER -> 0

\* max(1, sum of the counts)
flooredSum(pc) == IF countsGiven(pc) > 1 THEN countsGiven(pc) ELSE 1

\* C25: for person_counts given as a number, an array, a keyed object, or
\* an absent or otherwise-typed value, parseCounts, the event mapper of
\* getBookings and convertRecentItemToEvent return the same whole number,
\* max(1, sum of the counts), never less than 1
C25_CountsNormalizedAlike ==
    kPc = "normalized" =>
       /\ kResult.parseCounts = Big(0, flooredSum(kCounts))
       /\ kResult.getBookings = Big(0, flooredSum(kCounts))
       /\ kResult.convertRecentItemToEvent = Big(0, flooredSum(kCounts))
       /\ flooredSum(kCounts) >= 1

\* an array whose entries sum to 1 after a negative one and an entry that is
\* no number, and the three results floored at 1
C25_Witness ==
    /\ kPc = "normalized"
    /\ kCounts = Counts("array", NULL, <<Big(0, -1), NaN>>)
    /\ kResult.parseCounts = NumOne
    /\ kResult.getBookings = NumOne
    /\ kResult.convertRecentItemToEvent = NumOne

\* no month is cached from the empty list of a failed bookings request
monthCacheAuthoritative == \A key \in DOMAIN monthCache : monthCache[key].ver # -1

\* the step in which handleAvailabilityRange answers a request whose first
\* page request failed leaves AVAIL_RANGE_CACHE as it was
failedRangeNotStored ==
    \A id \in 1 .. Len(sReqs) :
       ( /\ sReqs[id].handler = "availability"
         /\ sReqs[id].pc # "done"
         /\ sReqs'[id].pc = "done"
         /\ sReqs'[id].failedPage = 1 )
       => AVAIL_RANGE_CACHE' = AVAIL_RANGE_CACHE

\* C27: a result obtained while the upstream was failing is not cached: the
\* empty list of a failed first page is not stored in AVAIL_RANGE_CACHE, and
\* the empty list of a failed bookings request is not stored in monthCache
C27_FailedResultsNotCached == [](monthCacheAuthoritative) /\ [][failedRangeNotStored]_vars

\* the loads of a key in which buildFromServer was tried and that ended with
\* the result given
serverTried(key, result) ==
    { id \in 1 .. Len(cLoads) :
        /\ cLoads[id].key = key
        /\ cLoads[id].serverRequests >= 1
        /\ cLoads[id].pc = "settled"
        /\ cLoads[id].result = result }

\* C28: whichever calls for the same dates and products ran or are in
\* flight before it, a call with preferBookings receives slots built from
\* bookings, and a call without it receives the server's slots unless the
\* server request was made and failed
C28_ResultIndependentOfOtherCallsPreference ==
    \A c \in 1 .. Len(cCalls) :
       (cCalls[c].fn = "availability" /\ cCalls[c].state = "resolved") =>
          IF cCalls[c].params.preferBookings
          THEN cCalls[c].result.src = "bookings"
          ELSE \/ cCalls[c].result.src = "server"
               \/ serverTried(cCalls[c].key, cCalls[c].result) # {}

\* the loads of a key that have stored a result
settledWith(key) ==
    { id \in 1 .. Len(cLoads) :
        cLoads[id].key = key /\ cLoads[id].pc = "settled" /\ cLoads[id].result # NoData }

\* C29: for each key, while its load is running the key is in
\* availabilityInflight and not in availabilityCache; once the load has
\* settled the key is in availabilityCache and no longer in
\* availabilityInflight; a key is never in both maps, and a key in
\* availabilityInflight is the key of a load that has not settled
C29_InflightAndCacheExclusive ==
    \A key \in AvailabilityKeys :
       /\ Unsettled(key) # {} =>
             /\ key \in DOMAIN availabilityInflight
             /\ availabilityInflight[key] \in Unsettled(key)
             /\ key \notin DOMAIN availabilityCache
       /\ settledWith(key) # {} =>
             /\ key \in DOMAIN availabilityCache
             /\ key \notin DOMAIN availabilityInflight
       /\ ~(key \in DOMAIN availabilityInflight /\ key \in DOMAIN availabilityCache)
       /\ key \in DOMAIN availabilityInflight => Unsettled(key) # {}

\* one key's load has settled through the bookings fallback after the server
\* request failed and the key is cached, while another key's load is running
C29_Witness ==
    \E i, k \in 1 .. Len(cLoads) :
       /\ cLoads[i].pc = "settled" /\ cLoads[i].result.src = "bookings"
       /\ cLoads[i].serverRequests = 1
       /\ cLoads[i].key \in DOMAIN availabilityCache
       /\ cLoads[i].key \notin DOMAIN availabilityInflight
       /\ cLoads[k].pc # "settled"
       /\ cLoads[k].key \in DOMAIN availabilityInflight
       /\ cLoads[k].key \notin DOMAIN availabilityCache

\* the distinct ids of the request
distinctIds == { mIds[i] : i \in 1 .. Len(mIds) }

\* C30: for every interleaving of the workers' awaits, getMaxFor is called
\* at most once for an id while the pool runs, at most MAX_WORKERS workers
\* run, and when getMaxMap returns getMaxFor has been called exactly once for
\* every distinct id and the map has an entry for every such id
C30_EveryIdOnceAndMapped ==
    /\ Len(mWorkers) <= MAX_WORKERS
    /\ \A id \in distinctIds : mCalled[id] <= 1
    /\ mPc = "returned" =>
          /\ \A id \in distinctIds : mCalled[id] = 1
          /\ DOMAIN mRes = distinctIds

\* more ids than workers: the pool of MAX_WORKERS has returned with an entry
\* for each of the MaxIds ids, one of them without a capacity
C30_Witness ==
    /\ mPc = "returned"
    /\ Len(mIds) = MaxIds
    /\ Len(mWorkers) = MAX_WORKERS
    /\ DOMAIN mRes = 1 .. MaxIds
    /\ mRes[MaxIds] = NULL
    /\ mRes[1] = Big(0, 11)

\* a list that repeats ids: one call and one entry for each distinct id
C30_WitnessRepeated ==
    /\ mPc = "returned"
    /\ mIds = <<3, 3, 1, 3, 2>>
    /\ DOMAIN mRes = {1, 2, 3}

----------------------------------------------------------------------------
(***************************************************************************)
(* The specifications                                                      *)
(***************************************************************************)
InitTime == TimeInit /\ AggIdle /\ ClientIdle /\ ServerIdle /\ FilterIdle /\ TzIdle
        /\ CountsIdle /\ MaxMapIdle

SpecTime == InitTime /\ [][TimeNext]_vars

InitAgg == AggInit /\ TimeIdle /\ ClientIdle /\ ServerIdle /\ FilterIdle /\ TzIdle
        /\ CountsIdle /\ MaxMapIdle

SpecAgg == InitAgg /\ [][AggNext]_vars

InitClient == ClientInit /\ TimeIdle /\ AggIdle /\ ServerIdle /\ FilterIdle /\ TzIdle
        /\ CountsIdle /\ MaxMapIdle

SpecClient == InitClient /\ [][ClientNext]_vars

\* the client with a server that may stop answering.  A request that is
\* answered is answered eventually; xhrFetch and fetch are given no timeout,
\* so nothing else ends an await
ClientLiveNext == ClientNext \/ ServerHangs

ClientAnswered ==
    \A id \in 1 .. MaxCalls :
       /\ WF_vars(\E answer \in Answers : ServerResponds(id, answer) \/ ServerFails(id, answer))
       /\ WF_vars(\E last \in Answers : FallbackBookingsReturn(id, last))
       /\ WF_vars(FallbackDone(id))
       /\ WF_vars(\E last \in Answers : CalendarBookingsReturn(id, last))

SpecClientLive == InitClient /\ [][ClientLiveNext]_vars /\ ClientAnswered

InitServer == ServerInit /\ TimeIdle /\ AggIdle /\ ClientIdle /\ FilterIdle /\ TzIdle
        /\ CountsIdle /\ MaxMapIdle

SpecServer == InitServer /\ [][ServerNext]_vars

InitFilter == FilterInit /\ TimeIdle /\ AggIdle /\ ClientIdle /\ ServerIdle /\ TzIdle
        /\ CountsIdle /\ MaxMapIdle

SpecFilter == InitFilter /\ [][FilterNext]_vars

InitTz ==
    TzInit /\ TimeIdle /\ AggIdle /\ ClientIdle /\ ServerIdle /\ FilterIdle
        /\ CountsIdle /\ MaxMapIdle

SpecTz == InitTz /\ [][TzNext]_vars

InitTzClock ==
    TzClockInit /\ TimeIdle /\ AggIdle /\ ClientIdle /\ ServerIdle /\ FilterIdle
        /\ CountsIdle /\ MaxMapIdle

SpecTzClock == InitTzClock /\ [][TzClockNext]_vars

InitCounts ==
    CountsInit /\ TimeIdle /\ AggIdle /\ ClientIdle /\ ServerIdle /\ FilterIdle
        /\ TzIdle /\ MaxMapIdle

SpecCounts == InitCounts /\ [][CountsNext]_vars

InitMaxMap ==
    MaxMapInit /\ TimeIdle /\ AggIdle /\ ClientIdle /\ ServerIdle /\ FilterIdle
        /\ TzIdle /\ CountsIdle

SpecMaxMap == InitMaxMap /\ [][MaxMapNext]_vars
====
